---- MODULE Spec2Model ----
(***************************************************************************)
(* Name disambiguation and cite grouping of citeproc-rs.                   *)
(*                                                                         *)
(*   crates/citeproc-proc/src/disamb/names.rs  name expansion iterator,    *)
(*                                             variant matcher, global     *)
(*                                             name disambiguation         *)
(*   crates/proc/src/ir/transforms.rs          range compression, cite     *)
(*                                             grouping and collapsing,    *)
(*                                             IR mutations                *)
(*   crates/proc/src/ir.rs                     the IR tree: is_empty,      *)
(*                                             flatten, edge stream        *)
(*                                                                         *)
(* Option<T> is modelled as T plus the string "None".                      *)
(***************************************************************************)
EXTENDS Integers, Sequences, FiniteSets, TLC

VARIABLES
    \* ---- SingleNameDisambIter under test (SpecIter)
    iter,          \* the iterator struct; state "Unbuilt" before construction
    iter_el,       \* the NameEl it was built from
    iter_rule,     \* the rule given to disamb_iter, "NoRule" when built by new()
    iter_primary,  \* DisambNameData.primary given to disamb_iter
    outs,          \* what each next() so far has returned, "None" included
    trail,         \* iter.state at construction and after every next()
    \* ---- DisambNameData::apply_pass under test (SpecPass)
    pass_el0,      \* the NameEl before any pass
    pass_el,       \* the NameEl now
    pass_log,      \* the passes applied so far, in order
    \* ---- disambiguated_person_names (SpecDisamb)
    style,         \* [rule, dagn]: the two style options the function reads
    dns,           \* db.all_person_names(): a sequence of DisambNameData
    dpc,           \* position in disambiguated_person_names
    matchers,      \* Vec<NameVariantMatcher>, each a sequence of edges
    cur,           \* locals of the second loop: [ix, dn, edge, iter]
    results,       \* the result map, as a function from indices of dns
    was_reset,     \* indices whose loop ended in the reset branch
    \* ---- collapse_ranges (SpecRanges)
    build,         \* "debug" (overflow checks on) or "release" (wrapping)
    nums,          \* the input slice of CnumIx
    pieces,        \* [status, pieces]: the returned Vec<RangePiece>; status is
                   \* "pending" before the call, "ok", or "panic"
    \* ---- group_and_collapse (SpecGroup)
    collapse,      \* Option<Collapse>
    cites,         \* Vec<Unnamed3>
    gm,            \* the HashMap m: rendered name -> [oix, seen_once]
    gix,           \* loop index of the grouping loop
    gpc,           \* position in group_and_collapse
    \* ---- IR::is_empty, IR::flatten, IR::to_edge_stream (SpecIr, SpecPair)
    arenas,        \* the IR trees at hand, each an arena with root NodeId 1
    ipc,           \* which of the three functions have been called
    ir_empty,      \* per arena: NodeId -> IR::is_empty(node, arena)
    ir_flat,       \* per arena: IR::flatten(root, arena, fmt)
    ir_edges,      \* per arena: IR::to_edge_stream(root, arena, fmt)
    \* ---- IR::split_first_field (SpecSplit)
    sf_ir0,        \* the IR before the call
    sf_ir,         \* the IR now
    spc,           \* "ready" before the call, "done" after
    \* ---- IR::suppress_year (SpecYear)
    sy_ir0,        \* the IR before the call
    sy_ir,         \* the IR now
    ypc,           \* "ready" before the call, "done" after
    \* ---- the NFA-building loop of Names::ref_ir (SpecNfa)
    nin,           \* what the loop reads: the name variable's disamb_names,
                   \* the name element, et-al and the style's rule
    nfa,           \* the Nfa: number of graph nodes, accepting set
    bump_name_count,     \* runner.bump_name_count
    ntbs,                \* the Vec<NameTokenBuilt>
    max_counted_tokens,
    counted_tokens,
    one_run,       \* Option of the frontier the last run returned
    seq_contents,  \* how many RefIR::Name the loop's exit pushed to seq.contents
    npc            \* position in the body of `for nir in name_irs`

iterVars   == <<iter, iter_el, iter_rule, iter_primary, outs, trail>>
passVars   == <<pass_el0, pass_el, pass_log>>
disambVars == <<style, dns, dpc, matchers, cur, results, was_reset>>
rangeVars  == <<build, nums, pieces>>
groupVars  == <<collapse, cites, gm, gix, gpc>>
irVars     == <<arenas, ipc, ir_empty, ir_flat, ir_edges>>
splitVars  == <<sf_ir0, sf_ir, spc>>
yearVars   == <<sy_ir0, sy_ir, ypc>>
nfaVars    == <<nin, nfa, bump_name_count, ntbs, max_counted_tokens, counted_tokens,
                one_run, seq_contents, npc>>
treeVars   == <<irVars, splitVars, yearVars, nfaVars>>
vars == <<iterVars, passVars, disambVars, rangeVars, groupVars, treeVars>>

(***************************************************************************)
(* Bounds of the model.                                                    *)
(***************************************************************************)
\* next() calls that may return None before the caller gives up
MaxNones == 2
\* next() calls that may yield a pass before the caller gives up
MaxYields == 4
\* length of an arbitrary pass sequence given to apply_pass
MaxPasses == 3

(***************************************************************************)
(* csl::style types used by names.rs                                       *)
(***************************************************************************)
NameForms == {"Long", "Short"}
Rules == {"ByCite", "AllNames", "AllNamesWithInitials", "PrimaryName",
          "PrimaryNameWithInitials"}
\* NameEl, restricted to the three fields names.rs reads or writes
NameEls == [form : NameForms \cup {"None"},
            initialize : {"None", "true", "false"},
            initialize_with : {"None", "."}]

Methods == {"None", "AddInitials", "AddInitialsThenGivenName"}
NameDisambStates == {"Original", "AddedInitials", "AddedGivenName"}
NameDisambPasses == {"WithFormLong", "WithInitializeFalse"}

(***************************************************************************)
(* DisambNameData::apply_pass                                              *)
(***************************************************************************)
apply_pass_toggle(el, pass) ==
    CASE pass = "WithFormLong" ->
           [el EXCEPT !.form = IF el.form = "Long" THEN "Short" ELSE "Long"]
      [] pass = "WithInitializeFalse" ->
           [el EXCEPT !.initialize = IF el.initialize = "false" THEN "true" ELSE "false"]

apply_pass(el, pass) ==
    CASE pass = "WithFormLong" -> [el EXCEPT !.form = "Long"]
      [] pass = "WithInitializeFalse" -> [el EXCEPT !.initialize = "false"]

(***************************************************************************)
(* SingleNameDisambMethod::from_rule                                       *)
(***************************************************************************)
from_rule_ignoring_primary(rule, is_primary) ==
    CASE rule \in {"ByCite", "AllNames", "PrimaryName"} -> "AddInitialsThenGivenName"
      [] rule \in {"AllNamesWithInitials", "PrimaryNameWithInitials"} -> "AddInitials"

from_rule(rule, is_primary) ==
    CASE rule \in {"ByCite", "AllNames"} -> "AddInitialsThenGivenName"
      [] rule = "AllNamesWithInitials" -> "AddInitials"
      [] rule = "PrimaryName" /\ is_primary -> "AddInitialsThenGivenName"
      [] rule = "PrimaryNameWithInitials" /\ is_primary -> "AddInitials"
      [] OTHER -> "None"

(***************************************************************************)
(* SingleNameDisambIter::new and Iterator::next                            *)
(***************************************************************************)
unwrap_or(opt, default) == IF opt = "None" THEN default ELSE opt

\* a new() that takes initialize_with.is_some() alone for the flag
SingleNameDisambIter_new_is_some(method, name_el) ==
    [method |-> method,
     initialize_with |-> (name_el.initialize_with # "None"),
     name_form |-> unwrap_or(name_el.form, "Long"),
     state |-> "Original"]

SingleNameDisambIter_new(method, name_el) ==
    [method |-> method,
     initialize_with |-> (name_el.initialize_with # "None" /\ name_el.initialize = "true"),
     name_form |-> unwrap_or(name_el.form, "Long"),
     state |-> "Original"]

\* next(&mut self): the iterator afterwards and the returned Option<pass>.
\* hit is TRUE when an unreachable!() arm is entered.
Ret(self, out) == [self |-> self, out |-> out, hit |-> FALSE]
Unreachable(self) == [self |-> self, out |-> "None", hit |-> TRUE]

\* the AddInitialsThenGivenName arm moving to AddedInitials whenever it
\* yields WithFormLong, also when initialize_with is false
next_AddInitialsThenGivenName_initials(self) ==
    IF self.initialize_with
    THEN CASE self.state = "Original" /\ self.name_form = "Short" ->
                Ret([self EXCEPT !.state = "AddedInitials"], "WithFormLong")
           [] self.state = "AddedGivenName" -> Ret(self, "None")
           [] OTHER ->
                Ret([self EXCEPT !.state = "AddedGivenName"], "WithInitializeFalse")
    ELSE CASE self.state = "Original" ->
                IF self.name_form = "Short"
                THEN Ret([self EXCEPT !.state = "AddedInitials"], "WithFormLong")
                ELSE Ret([self EXCEPT !.state = "AddedGivenName"], "None")
           [] self.state = "AddedInitials" -> Unreachable(self)
           [] self.state = "AddedGivenName" -> Ret(self, "None")

\* the AddInitials arm without its test of the form
next_AddInitials_no_form_check(self) ==
    IF self.initialize_with /\ self.state = "Original"
    THEN Ret([self EXCEPT !.state = "AddedInitials"], "WithFormLong")
    ELSE Ret(self, "None")

\* the arm `SingleNameDisambMethod::AddInitials => ...`
next_AddInitials(self) ==
    IF self.initialize_with
    THEN CASE self.state = "Original" ->
                IF self.name_form = "Short"
                THEN Ret([self EXCEPT !.state = "AddedInitials"], "WithFormLong")
                ELSE Ret(self, "None")
           [] self.state = "AddedInitials" -> Ret(self, "None")
           [] self.state = "AddedGivenName" -> Unreachable(self)
    ELSE Ret(self, "None")

\* the AddInitialsThenGivenName arm without its assignments to self.state
next_AddInitialsThenGivenName_stuck(self) ==
    IF self.initialize_with
    THEN CASE self.state = "Original" /\ self.name_form = "Short" ->
                Ret(self, "WithFormLong")
           [] self.state = "AddedGivenName" -> Ret(self, "None")
           [] OTHER -> Ret(self, "WithInitializeFalse")
    ELSE CASE self.state = "Original" ->
                Ret(self, IF self.name_form = "Short" THEN "WithFormLong" ELSE "None")
           [] self.state = "AddedInitials" -> Unreachable(self)
           [] self.state = "AddedGivenName" -> Ret(self, "None")

\* the arm `SingleNameDisambMethod::AddInitialsThenGivenName => ...`
next_AddInitialsThenGivenName(self) ==
    IF self.initialize_with
    THEN CASE self.state = "Original" /\ self.name_form = "Short" ->
                Ret([self EXCEPT !.state = "AddedInitials"], "WithFormLong")
           [] self.state = "AddedGivenName" -> Ret(self, "None")
           \* (Original, _) | (AddedInitials, _)
           [] OTHER ->
                Ret([self EXCEPT !.state = "AddedGivenName"], "WithInitializeFalse")
    ELSE CASE self.state = "Original" ->
                Ret([self EXCEPT !.state = "AddedGivenName"],
                    IF self.name_form = "Short" THEN "WithFormLong" ELSE "None")
           [] self.state = "AddedInitials" -> Unreachable(self)
           [] self.state = "AddedGivenName" -> Ret(self, "None")

SingleNameDisambIter_next(self) ==
    CASE self.method = "None" -> Ret(self, "None")
      [] self.method = "AddInitials" -> next_AddInitials(self)
      [] self.method = "AddInitialsThenGivenName" -> next_AddInitialsThenGivenName(self)

\* DisambNameData::disamb_iter
disamb_iter(el, primary, rule) ==
    SingleNameDisambIter_new(from_rule(rule, primary), el)

\* `for pass in iter` / `iter.collect()`: the passes until the first None
RECURSIVE collect(_)
collect(self) ==
    LET r == SingleNameDisambIter_next(self)
    IN  IF r.out = "None" THEN <<>> ELSE <<r.out>> \o collect(r.self)

(***************************************************************************)
(* Idle values of the variables a specification does not use.              *)
(***************************************************************************)
IdleEl == [form |-> "None", initialize |-> "None", initialize_with |-> "None"]
NoIter == [method |-> "None", initialize_with |-> FALSE, name_form |-> "Long",
           state |-> "Unbuilt"]
IterIdle ==
    /\ iter = NoIter /\ iter_el = IdleEl /\ iter_rule = "NoRule"
    /\ iter_primary = FALSE /\ outs = <<>> /\ trail = <<>>
PassIdle == pass_el0 = IdleEl /\ pass_el = IdleEl /\ pass_log = <<>>
NoData == [ref_id |-> 0, el |-> IdleEl, value |-> [family |-> "", given |-> ""],
           primary |-> FALSE]
NoCur == [ix |-> 0, dn |-> NoData, edge |-> [Output |-> <<>>], iter |-> NoIter]
DisambIdle ==
    /\ style = [rule |-> "ByCite", dagn |-> FALSE] /\ dns = <<>> /\ dpc = "idle"
    /\ matchers = <<>> /\ cur = NoCur /\ results = <<>> /\ was_reset = {}
RangeIdle == build = "None" /\ nums = <<>> /\ pieces = [status |-> "idle", pieces |-> <<>>]
GroupIdle == collapse = "None" /\ cites = <<>> /\ gm = <<>> /\ gix = 0 /\ gpc = "idle"
IrIdle ==
    /\ arenas = <<>> /\ ipc = "idle"
    /\ ir_empty = <<>> /\ ir_flat = <<>> /\ ir_edges = <<>>
NoIr == [kind |-> "Idle"]
SplitIdle == sf_ir0 = NoIr /\ sf_ir = NoIr /\ spc = "idle"
YearIdle == sy_ir0 = NoIr /\ sy_ir = NoIr /\ ypc = "idle"
NoInput == [names |-> <<>>, use_first |-> 0, delimiter |-> "", affixes |-> FALSE,
            rule |-> "ByCite"]
NfaIdle ==
    /\ nin = NoInput /\ nfa = [nodes |-> 0, start |-> {}, accepting |-> {}]
    /\ bump_name_count = 0 /\ ntbs = <<>>
    /\ max_counted_tokens = 0 /\ counted_tokens = 0
    /\ one_run = <<>> /\ seq_contents = 0 /\ npc = "idle"
TreeIdle == IrIdle /\ SplitIdle /\ YearIdle /\ NfaIdle

(***************************************************************************)
(* SpecIter: an iterator is built, by new() or by disamb_iter(), and       *)
(* next() is called on it repeatedly, also after it returned None.         *)
(***************************************************************************)
InitIter == IterIdle /\ PassIdle /\ DisambIdle /\ RangeIdle /\ GroupIdle /\ TreeIdle

\* test(): SingleNameDisambIter::new(method, name_el)
New ==
    /\ iter.state = "Unbuilt"
    /\ \E method \in Methods, el \in NameEls :
          /\ iter' = SingleNameDisambIter_new(method, el)
          /\ iter_el' = el
          /\ trail' = <<"Original">>
    /\ UNCHANGED <<iter_rule, iter_primary, outs>>
    /\ UNCHANGED <<passVars, disambVars, rangeVars, groupVars, treeVars>>

\* data.disamb_iter(rule)
DisambIter ==
    /\ iter.state = "Unbuilt"
    /\ \E rule \in Rules, primary \in BOOLEAN, el \in NameEls :
          /\ iter' = disamb_iter(el, primary, rule)
          /\ iter_el' = el
          /\ iter_rule' = rule
          /\ iter_primary' = primary
          /\ trail' = <<"Original">>
    /\ UNCHANGED outs
    /\ UNCHANGED <<passVars, disambVars, rangeVars, groupVars, treeVars>>

\* the passes among outs, and the number of None among them
Yielded == SelectSeq(outs, LAMBDA o : o # "None")
Nones == Len(outs) - Len(Yielded)

\* iter.next()
IterNext ==
    /\ iter.state # "Unbuilt"
    /\ Nones < MaxNones
    /\ Len(Yielded) < MaxYields
    /\ LET r == SingleNameDisambIter_next(iter)
       IN  /\ iter' = r.self
           /\ trail' = Append(trail, r.self.state)
           /\ outs' = Append(outs, r.out)
    /\ UNCHANGED <<iter_el, iter_rule, iter_primary>>
    /\ UNCHANGED <<passVars, disambVars, rangeVars, groupVars, treeVars>>

NextIter == New \/ DisambIter \/ IterNext
SpecIter == InitIter /\ [][NextIter]_vars

(***************************************************************************)
(* SpecPass: an arbitrary sequence of passes is applied to a NameEl.       *)
(***************************************************************************)
InitPass ==
    /\ IterIdle /\ DisambIdle /\ RangeIdle /\ GroupIdle /\ TreeIdle
    /\ pass_el0 \in NameEls
    /\ pass_el = pass_el0
    /\ pass_log = <<>>

\* data.apply_pass(pass)
ApplyPass ==
    /\ Len(pass_log) < MaxPasses
    /\ \E pass \in NameDisambPasses :
          /\ pass_el' = apply_pass(pass_el, pass)
          /\ pass_log' = Append(pass_log, pass)
    /\ UNCHANGED pass_el0
    /\ UNCHANGED <<iterVars, disambVars, rangeVars, groupVars, treeVars>>

NextPass == ApplyPass
SpecPass == InitPass /\ [][NextPass]_vars

(***************************************************************************)
(* Rendering one person name (OneNameVar::render_person_name, which lives  *)
(* in crates/proc/src/names.rs): a pure function of the name element and   *)
(* the person name.  Short form shows the family name only; long form      *)
(* shows the given name, as initials when initialize-with is set and       *)
(* initialize is not false.  The third argument selects the display order  *)
(* under name-as-sort-order, which the NameEls here do not set.            *)
(***************************************************************************)
PersonNames == {[family |-> "Doe", given |-> "John"],
                [family |-> "Doe", given |-> "Jane"],
                [family |-> "Doe", given |-> "Mary"]}

Initial(given) == IF given = "Mary" THEN "M" ELSE "J"

render_person_name(el, pn, seen_one) ==
    IF unwrap_or(el.form, "Long") = "Short" THEN <<pn.family>>
    ELSE IF el.initialize_with # "None" /\ el.initialize # "false"
         THEN <<Initial(pn.given), el.initialize_with, pn.family>>
    ELSE <<pn.given, pn.family>>

\* DisambNameData::single_name
single_name(data) == render_person_name(data.el, data.value, ~data.primary)

\* DisambNameData::single_name_edge with stack = Formatting::default():
\* db.edge interns the output, so equal edges are equal outputs
single_name_edge(data) == [Output |-> single_name(data)]

(***************************************************************************)
(* NameVariantMatcher                                                      *)
(***************************************************************************)
\* an accepts that compares with the first edge only
accepts_first_only(matcher, edge) == Len(matcher) > 0 /\ matcher[1] = edge

\* NameVariantMatcher::accepts
accepts(matcher, edge) == \E i \in 1..Len(matcher) : matcher[i] = edge

\* the `for pass in iter` loop of from_disamb_name: the edges pushed after
\* the first one
RECURSIVE pushed_edges(_, _)
pushed_edges(data, it) ==
    LET r == SingleNameDisambIter_next(it)
    IN  IF r.out = "None" THEN <<>>
        ELSE LET d == [data EXCEPT !.el = apply_pass(data.el, r.out)]
             IN  <<single_name_edge(d)>> \o pushed_edges(d, r.self)

\* a from_disamb_name that does not push the edge of the original data
from_disamb_name_no_original(data, rule) ==
    pushed_edges(data, disamb_iter(data.el, data.primary, rule))

\* NameVariantMatcher::from_disamb_name, on the looked-up data
from_disamb_name(data, rule) ==
    <<single_name_edge(data)>>
        \o pushed_edges(data, disamb_iter(data.el, data.primary, rule))

(***************************************************************************)
(* disambiguated_person_names                                              *)
(***************************************************************************)
\* names in db.all_person_names() (0..MaxNames of them)
MaxNames == 2

\* name elements as merged over NameEl::root_default(): form and initialize set
DisambEls == {el \in NameEls : el.form # "None" /\ el.initialize = "true"}
Styles == [rule : Rules, dagn : BOOLEAN]
NameInputs == [el : DisambEls, value : PersonNames, primary : BOOLEAN]
\* DisambName ids are the indices of dns; every name belongs to its own reference
NameList(n, s) ==
    [i \in 1..n |-> [ref_id |-> i, el |-> s[i].el, value |-> s[i].value,
                     primary |-> s[i].primary]]

\* dn_id.lookup(db)
lookup(dn_id) == dns[dn_id]

\* the closure is_ambiguous, counting past one
is_ambiguous_above_two(edge) ==
    Cardinality({i \in 1..Len(matchers) : accepts(matchers[i], edge)}) > 2

\* the closure is_ambiguous: more than one matcher accepts the edge
is_ambiguous(edge) ==
    Cardinality({i \in 1..Len(matchers) : accepts(matchers[i], edge)}) > 1

\* one evaluation of `while is_ambiguous(edge) { ... }` that breaks without
\* the reset
while_step_no_reset(c) ==
    IF ~is_ambiguous(c.edge) THEN [kind |-> "exit", cur |-> c]
    ELSE LET r == SingleNameDisambIter_next(c.iter)
         IN  IF r.out # "None"
             THEN LET d == [c.dn EXCEPT !.el = apply_pass(c.dn.el, r.out)]
                  IN  [kind |-> "pass",
                       cur |-> [c EXCEPT !.dn = d, !.edge = single_name_edge(d),
                                         !.iter = r.self]]
             ELSE [kind |-> "break", cur |-> [c EXCEPT !.iter = r.self]]

\* the loop as a do-while: the first evaluation asks the iterator for a pass
\* before it looks at the edge
while_step_do_while(c) ==
    IF ~is_ambiguous(c.edge) /\ c.dn # lookup(c.ix) THEN [kind |-> "exit", cur |-> c]
    ELSE LET r == SingleNameDisambIter_next(c.iter)
         IN  IF r.out # "None"
             THEN LET d == [c.dn EXCEPT !.el = apply_pass(c.dn.el, r.out)]
                  IN  [kind |-> "pass",
                       cur |-> [c EXCEPT !.dn = d, !.edge = single_name_edge(d),
                                         !.iter = r.self]]
             ELSE IF ~is_ambiguous(c.edge) THEN [kind |-> "exit", cur |-> c]
             ELSE [kind |-> "break",
                   cur |-> [c EXCEPT !.dn = lookup(c.ix), !.iter = r.self]]

\* one evaluation of `while is_ambiguous(edge) { ... }`: the loop exits, or
\* applies the next pass, or resets and breaks
while_step(c) ==
    IF ~is_ambiguous(c.edge) THEN [kind |-> "exit", cur |-> c]
    ELSE LET r == SingleNameDisambIter_next(c.iter)
         IN  IF r.out # "None"
             THEN LET d == [c.dn EXCEPT !.el = apply_pass(c.dn.el, r.out)]
                  IN  [kind |-> "pass",
                       cur |-> [c EXCEPT !.dn = d, !.edge = single_name_edge(d),
                                         !.iter = r.self]]
             ELSE [kind |-> "break",
                   cur |-> [c EXCEPT !.dn = lookup(c.ix), !.iter = r.self]]

\* results.insert(dn_id, dn)
insert(map, key, value) ==
    [k \in DOMAIN map \cup {key} |-> IF k = key THEN value ELSE map[k]]

InitDisamb ==
    /\ IterIdle /\ PassIdle /\ RangeIdle /\ GroupIdle /\ TreeIdle
    /\ style \in Styles
    /\ \E n \in 0..MaxNames : \E s \in [1..n -> NameInputs] : dns = NameList(n, s)
    /\ dpc = "start"
    /\ matchers = <<>>
    /\ cur = NoCur
    /\ results = <<>>
    /\ was_reset = {}

\* `if !dagn || rule == ByCite { return Arc::new(Default::default()) }`
EarlyReturn ==
    /\ dpc = "start"
    /\ ~style.dagn \/ style.rule = "ByCite"
    /\ dpc' = "done"
    /\ UNCHANGED <<style, dns, matchers, cur, results, was_reset>>
    /\ UNCHANGED <<iterVars, passVars, rangeVars, groupVars, treeVars>>

\* past the early return, into the preamble
Begin ==
    /\ dpc = "start"
    /\ style.dagn /\ style.rule # "ByCite"
    /\ dpc' = IF Len(dns) = 0 THEN "done" ELSE "matchers"
    /\ UNCHANGED <<style, dns, matchers, cur, results, was_reset>>
    /\ UNCHANGED <<iterVars, passVars, rangeVars, groupVars, treeVars>>

\* one iteration of `for &dn in dns.iter() { matchers.push(...) }`
BuildMatcher ==
    /\ dpc = "matchers"
    /\ LET dn == Len(matchers) + 1
       IN  /\ matchers' = Append(matchers, from_disamb_name(lookup(dn), style.rule))
           /\ dpc' = IF dn = Len(dns) THEN "names" ELSE "matchers"
    /\ UNCHANGED <<style, dns, cur, results, was_reset>>
    /\ UNCHANGED <<iterVars, passVars, rangeVars, groupVars, treeVars>>

\* head of `for &dn_id in dns.iter()`: the three `let mut` lines
StartName ==
    /\ dpc = "names"
    /\ LET dn_id == cur.ix + 1
           dn == lookup(dn_id)
       IN  cur' = [ix |-> dn_id, dn |-> dn, edge |-> single_name_edge(dn),
                   iter |-> disamb_iter(dn.el, dn.primary, style.rule)]
    /\ dpc' = "loop"
    /\ UNCHANGED <<style, dns, matchers, results, was_reset>>
    /\ UNCHANGED <<iterVars, passVars, rangeVars, groupVars, treeVars>>

\* the edge is ambiguous and the iterator yields: apply the pass, re-render
Expand ==
    /\ dpc = "loop"
    /\ while_step(cur).kind = "pass"
    /\ cur' = while_step(cur).cur
    /\ UNCHANGED <<style, dns, dpc, matchers, results, was_reset>>
    /\ UNCHANGED <<iterVars, passVars, rangeVars, groupVars, treeVars>>

\* the edge is ambiguous and the iterator is exhausted: reset, break, insert
Reset ==
    /\ dpc = "loop"
    /\ while_step(cur).kind = "break"
    /\ cur' = while_step(cur).cur
    /\ results' = insert(results, cur.ix, cur'.dn)
    /\ was_reset' = was_reset \cup {cur.ix}
    /\ dpc' = IF cur.ix = Len(dns) THEN "done" ELSE "names"
    /\ UNCHANGED <<style, dns, matchers>>
    /\ UNCHANGED <<iterVars, passVars, rangeVars, groupVars, treeVars>>

\* the edge is not ambiguous: the loop exits, insert
Record ==
    /\ dpc = "loop"
    /\ while_step(cur).kind = "exit"
    /\ results' = insert(results, cur.ix, cur.dn)
    /\ dpc' = IF cur.ix = Len(dns) THEN "done" ELSE "names"
    /\ UNCHANGED <<style, dns, matchers, cur, was_reset>>
    /\ UNCHANGED <<iterVars, passVars, rangeVars, groupVars, treeVars>>

NextDisamb == EarlyReturn \/ Begin \/ BuildMatcher \/ StartName \/ Expand \/ Reset \/ Record
SpecDisamb == InitDisamb /\ [][NextDisamb]_vars

(***************************************************************************)
(* disambiguated_person_names as a function of db.all_person_names() and   *)
(* the style: the result map, keyed by DisambName.  A DisambName is the    *)
(* interned DisambNameData, which ref_id tells apart here.                 *)
(***************************************************************************)
\* the preamble: `for &dn in dns.iter() { matchers.push(...) }`
matchers_of(list, rule) ==
    [i \in 1..Len(list) |-> from_disamb_name(list[i], rule)]

\* the closure is_ambiguous over the matchers ms
is_ambiguous_in(ms, edge) ==
    Cardinality({i \in 1..Len(ms) : accepts(ms[i], edge)}) > 1

\* `while is_ambiguous(edge) { ... }` for one name: the dn that is inserted
RECURSIVE while_loop(_, _, _, _)
while_loop(ms, orig, dn, it) ==
    IF ~is_ambiguous_in(ms, single_name_edge(dn)) THEN dn
    ELSE LET r == SingleNameDisambIter_next(it)
         IN  IF r.out # "None"
             THEN while_loop(ms, orig, [dn EXCEPT !.el = apply_pass(dn.el, r.out)],
                             r.self)
             ELSE orig

\* a function that builds each matcher only when its name's turn comes, so
\* that a name is compared with the names before it alone
disambiguated_person_names_lazy(list, st) ==
    IF ~st.dagn \/ st.rule = "ByCite" THEN <<>>
    ELSE [id \in {list[i].ref_id : i \in 1..Len(list)} |->
            LET i  == CHOOSE j \in 1..Len(list) : list[j].ref_id = id
                ms == matchers_of(SubSeq(list, 1, i), st.rule)
            IN  while_loop(ms, list[i], list[i],
                           disamb_iter(list[i].el, list[i].primary, st.rule))]

disambiguated_person_names(list, st) ==
    IF ~st.dagn \/ st.rule = "ByCite" THEN <<>>
    ELSE [id \in {list[i].ref_id : i \in 1..Len(list)} |->
            LET i  == CHOOSE j \in 1..Len(list) : list[j].ref_id = id
                ms == matchers_of(list, st.rule)
            IN  while_loop(ms, list[i], list[i],
                           disamb_iter(list[i].el, list[i].primary, st.rule))]

(***************************************************************************)
(* CnumIx, RangePiece, RangePiece::attempt_append, collapse_ranges         *)
(***************************************************************************)
\* u32 is modelled with U32Bits bits: the values 0 .. 2^U32Bits - 1
U32Bits == 2
U32Modulus == 2 ^ U32Bits
U32 == 0..(U32Modulus - 1)
\* longest input slice
MaxNums == 5

CnumIx(cnum, ix) == [cnum |-> cnum, ix |-> ix]
Single(x) == [kind |-> "Single", first |-> x, last |-> x]
Range(x, y) == [kind |-> "Range", first |-> x, last |-> y]

\* `a - b` on u32: with overflow checks (debug) a result below 0 panics,
\* without them (release) it wraps
u32_sub(profile, a, b) ==
    IF a - b >= 0 THEN [panic |-> FALSE, value |-> a - b]
    ELSE IF profile = "debug" THEN [panic |-> TRUE, value |-> 0]
    ELSE [panic |-> FALSE, value |-> (a - b) % U32Modulus]

\* an attempt_append that never extends an existing Range
attempt_append_no_extend(profile, self, nxt) ==
    LET d == u32_sub(profile, nxt.cnum, 1)
    IN  IF d.panic THEN [panic |-> TRUE, self |-> self, emit |-> <<>>]
        ELSE IF self.kind = "Single" /\ self.first.cnum = d.value
             THEN [panic |-> FALSE, self |-> Range(self.first, nxt), emit |-> <<>>]
        ELSE [panic |-> FALSE, self |-> Single(nxt), emit |-> <<self>>]

\* RangePiece::attempt_append: self afterwards and the emitted piece, if any
\* (emit is a sequence of at most one piece)
attempt_append(profile, self, nxt) ==
    LET d == u32_sub(profile, nxt.cnum, 1)
    IN  IF d.panic THEN [panic |-> TRUE, self |-> self, emit |-> <<>>]
        ELSE IF self.kind = "Single" /\ self.first.cnum = d.value
             THEN [panic |-> FALSE, self |-> Range(self.first, nxt), emit |-> <<>>]
        ELSE IF self.kind = "Range" /\ self.last.cnum = d.value
             THEN [panic |-> FALSE, self |-> Range(self.first, nxt), emit |-> <<>>]
        ELSE [panic |-> FALSE, self |-> Single(nxt), emit |-> <<self>>]

\* the loop `for &num in &nums[1..]` of collapse_ranges, from index i on
RECURSIVE collapse_loop(_, _, _, _, _)
collapse_loop(profile, ns, i, wip, acc) ==
    IF i > Len(ns) THEN [status |-> "ok", pieces |-> Append(acc, wip)]
    ELSE LET r == attempt_append(profile, wip, ns[i])
         IN  IF r.panic THEN [status |-> "panic", pieces |-> <<>>]
             ELSE collapse_loop(profile, ns, i + 1, r.self, acc \o r.emit)

collapse_ranges(profile, ns) ==
    IF ns = <<>> THEN [status |-> "ok", pieces |-> <<>>]
    ELSE collapse_loop(profile, ns, 2, Single(ns[1]), <<>>)

\* an input slice: ix is the position in the cite list
NumList(n, s) == [i \in 1..n |-> CnumIx(s[i], i - 1)]

InitRanges ==
    /\ IterIdle /\ PassIdle /\ DisambIdle /\ GroupIdle /\ TreeIdle
    /\ build \in {"debug", "release"}
    /\ \E n \in 0..MaxNums : \E s \in [1..n -> U32] : nums = NumList(n, s)
    /\ pieces = [status |-> "pending", pieces |-> <<>>]

\* collapse_ranges(&nums)
CollapseRanges ==
    /\ pieces.status = "pending"
    /\ pieces' = collapse_ranges(build, nums)
    /\ UNCHANGED <<build, nums>>
    /\ UNCHANGED <<iterVars, passVars, disambVars, groupVars, treeVars>>

NextRanges == CollapseRanges
SpecRanges == InitRanges /\ [][NextRanges]_vars

(***************************************************************************)
(* Unnamed3 and group_and_collapse.  Of a cite the model keeps what the    *)
(* function reads and writes: whether the cite has a user prefix or        *)
(* suffix, its citation number, of its IR (gen4.ir) the flattened output   *)
(* of the first name block and the number of its year suffix, the          *)
(* mutations applied to that IR (ir_ops), every flag and range field of    *)
(* Unnamed3, and the cite's position in the input (id).  Positions are     *)
(* 0-based as in the source: cites.get(i) is cites[i + 1] here.  An        *)
(* Option<u32> is the empty sequence or a sequence of one number.          *)
(***************************************************************************)
\* cites in the cluster, and how many of them carry a user prefix or suffix
MaxCites == 4
MaxAffixed == 1
\* cites in a cluster whose cites carry citation numbers or year suffixes,
\* and the largest such number
MaxNumbered == 3
MaxCnum == 2

Collapses == {"None", "CitationNumber", "Year", "YearSuffix", "YearSuffixRanged"}
\* outputs of a first name block; "None" when there is none or it is empty
NameOutputs == {"None", "A", "B"}

\* Option<u32> values up to MaxCnum
OptNums(lo) == {<<>>} \cup {<<c>> : c \in lo..MaxCnum}

\* Unnamed3::new; cite is [id, has_prefix, has_suffix], gen4 is [name,
\* suffix_num]
Unnamed3_new(cite, cnum, gen4) ==
    [id |-> cite.id, has_prefix |-> cite.has_prefix, has_suffix |-> cite.has_suffix,
     name |-> gen4.name, suffix_num |-> gen4.suffix_num, ir_ops |-> <<>>,
     cnum |-> cnum,
     is_first |-> FALSE, should_collapse |-> FALSE,
     first_of_ys |-> FALSE, collapse_ys |-> FALSE,
     collapsed_year_suffixes |-> <<>>, collapsed_ranges |-> <<>>,
     vanished |-> FALSE]

\* Cite::has_affix
has_affix(u) == u.has_prefix \/ u.has_suffix
\* the ways a cite can carry a user prefix or suffix
Affixes == {a \in [has_prefix : BOOLEAN, has_suffix : BOOLEAN] : has_affix(a)}
\* a cluster: cites with the outputs nm, those at the positions P carrying
\* the affixes af
Cluster(n, nm, P, af) ==
    [i \in 1..n |->
        Unnamed3_new([id |-> i - 1, has_prefix |-> i \in P /\ af[i].has_prefix,
                      has_suffix |-> i \in P /\ af[i].has_suffix],
                     <<>>, [name |-> nm[i], suffix_num |-> <<>>])]
\* a cluster without user affixes: cites with the outputs nm, the citation
\* numbers cn and the year-suffix numbers ys
NumberedCluster(n, nm, cn, ys) ==
    [i \in 1..n |->
        Unnamed3_new([id |-> i - 1, has_prefix |-> FALSE, has_suffix |-> FALSE],
                     cn[i], [name |-> nm[i], suffix_num |-> ys[i]])]

\* cites.get(i).map_or(false, |u| ...): the cite at i, if i is in the list
in_bounds(cs, i) == i >= 0 /\ i < Len(cs)

\* slice.rotate_right(1) on cs[lo ..= hi] (0-based, inclusive)
rotate_right_1(cs, lo, hi) ==
    [k \in 1..Len(cs) |->
        IF k - 1 = lo THEN cs[hi + 1]
        ELSE IF k - 1 > lo /\ k - 1 <= hi THEN cs[k - 1]
        ELSE cs[k]]

\* an and_modify that does not look at the suffix of the cite at oix
and_modify_no_oix_suffix(cs, entry, ix) ==
    LET oix == entry.oix
        barrier ==
            \/ in_bounds(cs, oix + 1) /\ cs[oix + 2].has_prefix
            \/ in_bounds(cs, ix - 1) /\ cs[ix].has_suffix
            \/ in_bounds(cs, ix) /\ has_affix(cs[ix + 1])
    IN  IF barrier
        THEN [cites |-> cs, entry |-> [entry EXCEPT !.oix = ix]]
        ELSE IF oix < ix
        THEN LET c1 == IF ~entry.seen_once
                       THEN [cs EXCEPT ![oix + 1].is_first = TRUE] ELSE cs
                 c2 == [c1 EXCEPT ![ix + 1].should_collapse = TRUE]
             IN  [cites |-> rotate_right_1(c2, oix + 1, ix),
                  entry |-> [oix |-> oix + 1, seen_once |-> TRUE]]
        ELSE [cites |-> cs, entry |-> entry]

\* the and_modify closure: entry (oix, seen_once) of the name of cites[ix]
and_modify(cs, entry, ix) ==
    LET oix == entry.oix
        barrier ==
            \/ in_bounds(cs, oix) /\ cs[oix + 1].has_suffix
            \/ in_bounds(cs, oix + 1) /\ cs[oix + 2].has_prefix
            \/ in_bounds(cs, ix - 1) /\ cs[ix].has_suffix
            \/ in_bounds(cs, ix) /\ has_affix(cs[ix + 1])
    IN  IF barrier
        THEN [cites |-> cs, entry |-> [entry EXCEPT !.oix = ix]]
        ELSE IF oix < ix
        THEN LET c1 == IF ~entry.seen_once
                       THEN [cs EXCEPT ![oix + 1].is_first = TRUE] ELSE cs
                 c2 == [c1 EXCEPT ![ix + 1].should_collapse = TRUE]
             IN  [cites |-> rotate_right_1(c2, oix + 1, ix),
                  entry |-> [oix |-> oix + 1, seen_once |-> TRUE]]
        ELSE [cites |-> cs, entry |-> entry]

\* one iteration of `for ix in 0..cites.len()`
group_step(cs, m, ix) ==
    LET rendered == cs[ix + 1].name
    IN  IF rendered = "None" THEN [cites |-> cs, m |-> m]
        ELSE IF rendered \in DOMAIN m
        THEN LET r == and_modify(cs, m[rendered], ix)
             IN  [cites |-> r.cites, m |-> [m EXCEPT ![rendered] = r.entry]]
        ELSE [cites |-> cs,
              m |-> [k \in DOMAIN m \cup {rendered} |->
                        IF k = rendered THEN [oix |-> ix, seen_once |-> FALSE]
                        ELSE m[k]]]

\* `if collapse == Some(Collapse::CitationNumber) { ... split_first_mut ... }`
mark_citation_number(cs, col) ==
    IF col = "CitationNumber"
    THEN [k \in 1..Len(cs) |->
            IF k = 1 THEN [cs[k] EXCEPT !.is_first = TRUE]
            ELSE [cs[k] EXCEPT !.should_collapse = TRUE]]
    ELSE cs

\* rest.iter_mut().take_while(|u| u.should_collapse): how many cites from
\* position k (1-based) on are taken
RECURSIVE take_while_should_collapse(_, _)
take_while_should_collapse(cs, k) ==
    IF k > Len(cs) \/ ~cs[k].should_collapse THEN 0
    ELSE 1 + take_while_should_collapse(cs, k + 1)

\* an arm that numbers every cite with the position of the first
cnums_of_first_ix(cs, ix, cnt) ==
    LET all == [j \in 1..(cnt + 1) |-> [opt |-> cs[ix + j].cnum, ix |-> ix]]
        some == SelectSeq(all, LAMBDA e : e.opt # <<>>)
    IN  [j \in 1..Len(some) |-> CnumIx(some[j].opt[1], some[j].ix)]

\* the Vec cnums built for the cite at ix and the cnt cites following it
cnums_of(cs, ix, cnt) ==
    LET all == [j \in 1..(cnt + 1) |->
                   [opt |-> cs[ix + j].cnum, ix |-> ix + j - 1]]
        some == SelectSeq(all, LAMBDA e : e.opt # <<>>)
    IN  [j \in 1..Len(some) |-> CnumIx(some[j].opt[1], some[j].ix)]

\* the arm Collapse::CitationNumber: `for ix in 0..cites.len()`, from ix on
RECURSIVE collapse_citation_number(_, _, _)
collapse_citation_number(profile, cs, ix) ==
    IF ix >= Len(cs) THEN [status |-> "ok", cites |-> cs]
    ELSE IF ~cs[ix + 1].is_first THEN collapse_citation_number(profile, cs, ix + 1)
    ELSE LET cnt == take_while_should_collapse(cs, ix + 2)
             c1  == [k \in 1..Len(cs) |->
                        IF k > ix + 1 /\ k <= ix + 1 + cnt
                        THEN [cs[k] EXCEPT !.vanished = TRUE] ELSE cs[k]]
             r   == collapse_ranges(profile, cnums_of(cs, ix, cnt))
         IN  IF r.status = "panic" THEN [status |-> "panic", cites |-> c1]
             ELSE collapse_citation_number(
                      profile, [c1 EXCEPT ![ix + 1].collapsed_ranges = r.pieces],
                      ix + 1)

\* what the loop body does to gen4.ir of a following cite
suppress(col, u) ==
    [u EXCEPT !.ir_ops = IF col # "Year"
                         THEN @ \o <<"suppress_names", "suppress_year">>
                         ELSE @ \o <<"suppress_names">>]

\* the arm Year | YearSuffix | YearSuffixRanged: `while ix < cites.len()`
RECURSIVE collapse_year(_, _, _)
collapse_year(col, cs, ix) ==
    IF ix >= Len(cs) THEN cs
    ELSE IF ~cs[ix + 1].is_first THEN collapse_year(col, cs, ix + 1)
    ELSE LET count == take_while_should_collapse(cs, ix + 2)
             c1 == [k \in 1..Len(cs) |->
                       IF k > ix + 1 /\ k <= ix + 1 + count
                       THEN suppress(col, cs[k]) ELSE cs[k]]
         IN  collapse_year(col, c1, ix + count + 1)

\* `if let Some(collapse) = collapse { match collapse { ... } }`
collapse_block(profile, col, cs) ==
    CASE col = "CitationNumber" -> collapse_citation_number(profile, cs, 0)
      [] col \in {"Year", "YearSuffix", "YearSuffixRanged"} ->
            [status |-> "ok", cites |-> collapse_year(col, cs, 0)]
      [] OTHER -> [status |-> "ok", cites |-> cs]

InitGroup ==
    /\ IterIdle /\ PassIdle /\ DisambIdle /\ TreeIdle
    /\ nums = <<>> /\ pieces = [status |-> "idle", pieces |-> <<>>]
    /\ \/ \* up to MaxCites cites, at most MaxAffixed of them with an affix
          /\ build = "debug"
          /\ collapse \in Collapses
          /\ \E n \in 0..MaxCites :
                \E nm \in [1..n -> NameOutputs],
                   P \in {Q \in SUBSET (1..n) : Cardinality(Q) <= MaxAffixed} :
                    \E af \in [P -> Affixes] : cites = Cluster(n, nm, P, af)
       \/ \* up to MaxNumbered cites with citation numbers
          /\ build \in {"debug", "release"}
          /\ collapse = "CitationNumber"
          /\ \E n \in 1..MaxNumbered :
                \E nm \in [1..n -> NameOutputs], cn \in [1..n -> OptNums(0)] :
                    cites = NumberedCluster(n, nm, cn, [i \in 1..n |-> <<>>])
       \/ \* up to MaxNumbered cites with year suffixes
          /\ build = "debug"
          /\ collapse = "YearSuffixRanged"
          /\ \E n \in 1..MaxNumbered :
                \E nm \in [1..n -> NameOutputs], ys \in [1..n -> OptNums(1)] :
                    cites = NumberedCluster(n, nm, [i \in 1..n |-> <<>>], ys)
    /\ gm = <<>>
    /\ gix = 0
    /\ gpc = "group"

\* "First, group cites with the same name": one iteration of the loop
GroupStep ==
    /\ gpc = "group"
    /\ gix < Len(cites)
    /\ LET r == group_step(cites, gm, gix)
       IN  cites' = r.cites /\ gm' = r.m
    /\ gix' = gix + 1
    /\ UNCHANGED <<collapse, gpc>>
    /\ UNCHANGED <<iterVars, passVars, disambVars, rangeVars, treeVars>>

\* the loop is over: the CitationNumber marking
Mark ==
    /\ gpc = "group"
    /\ gix = Len(cites)
    /\ cites' = mark_citation_number(cites, collapse)
    /\ gpc' = "collapse"
    /\ UNCHANGED <<collapse, gm, gix>>
    /\ UNCHANGED <<iterVars, passVars, disambVars, rangeVars, treeVars>>

\* `if let Some(collapse) = collapse { ... }`; the function returns, or
\* panics in collapse_ranges
Collapse ==
    /\ gpc = "collapse"
    /\ LET r == collapse_block(build, collapse, cites)
       IN  /\ cites' = r.cites
           /\ gpc' = IF r.status = "panic" THEN "panic" ELSE "done"
    /\ UNCHANGED <<collapse, gm, gix>>
    /\ UNCHANGED <<iterVars, passVars, disambVars, rangeVars, treeVars>>

NextGroup == GroupStep \/ Mark \/ Collapse
SpecGroup == InitGroup /\ [][NextGroup]_vars

(***************************************************************************)
(* The IR tree in its arena (ir.rs).  An arena is a sequence of nodes: the *)
(* NodeId of a node is its index, the root is node 1, and a node is        *)
(* [ir, gv, children], the pair (IR, GroupVars) the arena stores and the   *)
(* NodeIds of the node's children in order.  An IR is [kind, ced, seq]:    *)
(* ced is the Option<CiteEdgeData> of a Rendered, seq the IrSeq of a Seq.  *)
(* A Build is the sequence of its text tokens.  In every tree of the model *)
(* formatting, display and text_case are unset, so that the tag stack is   *)
(* empty and with_display and apply_text_case leave a Build as it is.      *)
(***************************************************************************)
\* nodes of an arena
MaxNodes == 3

GroupVars == {"Plain", "Important", "Missing", "Unresolved"}

\* GroupVars::neighbour
neighbour(a, b) ==
    CASE a = "Important" \/ b = "Important" -> "Important"
      [] a = "Unresolved" \/ b = "Unresolved" -> "Unresolved"
      [] a = "Missing" \/ b = "Missing" -> "Missing"
      [] OTHER -> "Plain"

\* GroupVars::should_render_tree
should_render_tree(gv) == gv # "Missing"

\* Option<O::Build>
None == [some |-> FALSE, build |-> <<>>]
Some(b) == [some |-> TRUE, build |-> b]

\* fmt.group(xs, delimiter, None)
RECURSIVE fmt_group(_, _)
fmt_group(xs, delimiter) ==
    IF xs = <<>> THEN <<>>
    ELSE IF Len(xs) = 1 THEN xs[1]
    ELSE xs[1] \o delimiter \o fmt_group(Tail(xs), delimiter)

\* fmt.affixed_quoted(b, affixes, quotes)
fmt_affixed_quoted(b, affixes, quotes) ==
    LET quoted == IF quotes THEN <<"<q>">> \o b \o <<"</q>">> ELSE b
    IN  IF affixes.some THEN affixes.prefix \o quoted \o affixes.suffix ELSE quoted

\* fmt.output_in_context(build, formatting, None) with the default formatting
output_in_context(b) == b

\* CiteEdgeData and Option<CiteEdgeData>
CiteEdgeDataVariants ==
    {"Output", "Locator", "LocatorLabel", "YearSuffix", "CitationNumber",
     "CitationNumberLabel", "Frnn", "FrnnLabel", "Accessed", "Year", "Term"}
Ced(variant, b) == [variant |-> variant, build |-> b]
NoneCed == Ced("None", <<>>)

\* EdgeData
EdgeOutput(text) == [kind |-> "Output", text |-> text]
Sentinel(kind) == [kind |-> kind, text |-> <<>>]

\* IrSeq and its Default
IrSeq(affixes, delimiter, quotes, dropped_gv) ==
    [affixes |-> affixes, delimiter |-> delimiter, quotes |-> quotes,
     dropped_gv |-> dropped_gv]
NoAffixes == [some |-> FALSE, prefix |-> <<>>, suffix |-> <<>>]
SomeAffixes(prefix, suffix) == [some |-> TRUE, prefix |-> prefix, suffix |-> suffix]
IrSeq_default == IrSeq(NoAffixes, <<>>, FALSE, "None")

\* IR
Rendered(ced) == [kind |-> "Rendered", ced |-> ced, seq |-> IrSeq_default]
Seq_(seq) == [kind |-> "Seq", ced |-> NoneCed, seq |-> seq]
Other(kind) == [kind |-> kind, ced |-> NoneCed, seq |-> IrSeq_default]

\* arena.get(node)
get(arena, node) == node \in 1..Len(arena)

\* IR::is_empty
is_empty(node, arena) ==
    IF ~get(arena, node) THEN FALSE
    ELSE LET me == arena[node].ir
         IN  CASE me.kind = "Rendered" /\ me.ced = NoneCed -> TRUE
               [] me.kind \in {"Seq", "Name", "ConditionalDisamb", "YearSuffix"} ->
                     arena[node].children # <<>>
               [] me.kind = "NameCounter" -> FALSE
               [] OTHER -> FALSE

\* the fold of overall_group_vars over the children from the i-th on
RECURSIVE fold_neighbour(_, _, _, _)
fold_neighbour(acc, arena, kids, i) ==
    IF i > Len(kids) THEN acc
    ELSE fold_neighbour(neighbour(acc, arena[kids[i]].gv), arena, kids, i + 1)

\* IrSeq::overall_group_vars, an Option<GroupVars>
overall_group_vars(dropped_gv, self_id, arena) ==
    IF dropped_gv = "None" THEN "None"
    ELSE LET acc == fold_neighbour(dropped_gv, arena, arena[self_id].children, 1)
         IN  IF acc # "Missing" THEN "Important" ELSE "Plain"

\* overall_group_vars(..).map_or(true, |x| x.should_render_tree())
renders(seq, id, arena) ==
    LET ogv == overall_group_vars(seq.dropped_gv, id, arena)
    IN  ogv = "None" \/ should_render_tree(ogv)

\* CiteEdgeData::inner
inner(ced) == ced.build

\* CiteEdgeData::to_edge_data
to_edge_data(ced) ==
    IF ced.variant \in {"Output", "Year", "Term"}
    THEN EdgeOutput(output_in_context(ced.build))
    ELSE Sentinel(ced.variant)

RECURSIVE flatten(_, _), filter_map_flatten(_, _, _)

\* children.filter_map(|child| IR::flatten(child, arena, fmt)), from the
\* i-th child on
filter_map_flatten(arena, kids, i) ==
    IF i > Len(kids) THEN <<>>
    ELSE LET x == flatten(kids[i], arena)
         IN  (IF x.some THEN <<x.build>> ELSE <<>>)
                \o filter_map_flatten(arena, kids, i + 1)

\* IR::flatten_children
flatten_children(self_id, arena) ==
    LET group == filter_map_flatten(arena, arena[self_id].children, 1)
    IN  IF group = <<>> THEN None ELSE Some(fmt_group(group, <<>>))

\* IrSeq::flatten_seq
flatten_seq(seq, id, arena) ==
    IF ~renders(seq, id, arena) THEN None
    ELSE LET xs == filter_map_flatten(arena, arena[id].children, 1)
         IN  IF xs = <<>> THEN None
             ELSE Some(fmt_affixed_quoted(fmt_group(xs, seq.delimiter),
                                          seq.affixes, seq.quotes))

\* IR::flatten
flatten(node, arena) ==
    IF ~get(arena, node) THEN None
    ELSE LET me == arena[node].ir
         IN  CASE me.kind = "Rendered" ->
                    IF me.ced = NoneCed THEN None ELSE Some(inner(me.ced))
               [] me.kind = "Seq" -> flatten_seq(me.seq, node, arena)
               [] OTHER -> flatten_children(node, arena)

RECURSIVE append_edges(_, _), seq_children_edges(_, _, _, _, _)

\* the loop "push the innards" of IrSeq::append_edges, from the i-th child on
seq_children_edges(seq, arena, kids, i, seen) ==
    IF i > Len(kids) THEN <<>>
    ELSE LET sub == append_edges(kids[i], arena)
         IN  IF sub = <<>> THEN seq_children_edges(seq, arena, kids, i + 1, seen)
             ELSE (IF seen /\ seq.delimiter # <<>>
                   THEN <<EdgeOutput(output_in_context(seq.delimiter))>>
                   ELSE <<>>)
                    \o sub \o seq_children_edges(seq, arena, kids, i + 1, TRUE)

\* IrSeq::append_edges: the edges it pushes
IrSeq_append_edges(seq, node, arena) ==
    IF arena[node].children = <<>> THEN <<>>
    ELSE (IF seq.affixes.some /\ seq.affixes.prefix # <<>>
          THEN <<EdgeOutput(seq.affixes.prefix)>> ELSE <<>>)
            \o seq_children_edges(seq, arena, arena[node].children, 1, FALSE)
            \o (IF seq.affixes.some /\ seq.affixes.suffix # <<>>
                THEN <<EdgeOutput(seq.affixes.suffix)>> ELSE <<>>)

\* IR::append_child_edges
RECURSIVE append_child_edges(_, _, _)
append_child_edges(arena, kids, i) ==
    IF i > Len(kids) THEN <<>>
    ELSE append_edges(kids[i], arena) \o append_child_edges(arena, kids, i + 1)

\* IR::append_edges: the edges it pushes
append_edges(node, arena) ==
    IF ~get(arena, node) THEN <<>>
    ELSE LET me == arena[node].ir
         IN  CASE me.kind = "Rendered" ->
                    IF me.ced = NoneCed THEN <<>> ELSE <<to_edge_data(me.ced)>>
               [] me.kind = "YearSuffix" ->
                    IF is_empty(node, arena) THEN <<Sentinel("YearSuffix")>> ELSE <<>>
               [] me.kind = "Seq" ->
                    IF renders(me.seq, node, arena)
                    THEN IrSeq_append_edges(me.seq, node, arena) ELSE <<>>
               [] OTHER -> append_child_edges(arena, arena[node].children, 1)

\* IR::to_edge_stream
to_edge_stream(root, arena) == append_edges(root, arena)

(***************************************************************************)
(* The trees the three functions are called on.  The root is any IR; the   *)
(* children of the root are any IR but a Seq with delimiter, quotes or     *)
(* dropped_gv; the children of those are Rendered leaves.                  *)
(***************************************************************************)
LeafCeds ==
    {NoneCed, Ced("Output", <<"a">>), Ced("Output", <<"b">>),
     Ced("Locator", <<"a">>), Ced("Locator", <<"b">>)}
LeafIrs == {Rendered(c) : c \in LeafCeds}
OtherIrs == {Other(k) : k \in {"Name", "ConditionalDisamb", "YearSuffix", "NameCounter"}}
AffixInputs == {NoAffixes, SomeAffixes(<<"(">>, <<")">>), SomeAffixes(<<>>, <<")">>)}
RootSeqs ==
    {Seq_(IrSeq(af, d, q, g)) :
        af \in AffixInputs, d \in {<<>>, <<",">>}, q \in BOOLEAN,
        g \in {"None", "Missing"}}
ChildSeqs == {Seq_(IrSeq(af, <<>>, FALSE, "None")) :
                 af \in {NoAffixes, SomeAffixes(<<"(">>, <<")">>)}}
RootIrs == LeafIrs \cup OtherIrs \cup RootSeqs
ChildIrs == LeafIrs \cup OtherIrs \cup ChildSeqs
GvInputs == {"Important", "Missing"}

\* arena.new_node((ir, gv)) followed by parent.append(node, arena)
new_node_append(arena, parent, ir, gv) ==
    Append([arena EXCEPT ![parent].children = Append(@, Len(arena) + 1)],
           [ir |-> ir, gv |-> gv, children |-> <<>>])

\* the nodes a child can be appended to, with the IRs the child can be
CanHold(arena) ==
    {p \in 1..Len(arena) :
        /\ arena[p].ir.kind # "Rendered"
        /\ p = 1 \/ p \in {arena[1].children[i] : i \in 1..Len(arena[1].children)}}
IrsUnder(p) == IF p = 1 THEN ChildIrs ELSE LeafIrs

\* arena.new_node((ir, Important)) of the root
RootArenas == {<<[ir |-> ir, gv |-> "Important", children |-> <<>>]>> : ir \in RootIrs}
\* a root alone, or a root with one Rendered child
PairArenas ==
    RootArenas \cup
    {new_node_append(a, 1, ir, "Important") :
        a \in {r \in RootArenas : r[1].ir.kind # "Rendered"}, ir \in LeafIrs}

InitIr ==
    /\ IterIdle /\ PassIdle /\ DisambIdle /\ RangeIdle /\ GroupIdle
    /\ SplitIdle /\ YearIdle /\ NfaIdle
    /\ \E a \in RootArenas : arenas = <<a>>
    /\ ipc = "build"
    /\ ir_empty = <<>> /\ ir_flat = <<>> /\ ir_edges = <<>>

InitPair ==
    /\ IterIdle /\ PassIdle /\ DisambIdle /\ RangeIdle /\ GroupIdle
    /\ SplitIdle /\ YearIdle /\ NfaIdle
    /\ \E a \in PairArenas, b \in PairArenas : arenas = <<a, b>>
    /\ ipc = "ready"
    /\ ir_empty = <<>> /\ ir_flat = <<>> /\ ir_edges = <<>>

otherThanIr == <<iterVars, passVars, disambVars, rangeVars, groupVars, splitVars, yearVars,
                 nfaVars>>

\* the tree is built: one more node is appended to a node of the arena
NewNode ==
    /\ ipc = "build"
    /\ Len(arenas[1]) < MaxNodes
    /\ \E p \in CanHold(arenas[1]) :
          \E ir \in IrsUnder(p), gv \in GvInputs :
              arenas' = <<new_node_append(arenas[1], p, ir, gv)>>
    /\ UNCHANGED <<ipc, ir_empty, ir_flat, ir_edges>>
    /\ UNCHANGED otherThanIr

\* IR::is_empty(node, arena) for every node, and for a NodeId that is not
\* in the arena
IsEmpty ==
    /\ ipc \in {"build", "ready"}
    /\ ir_empty' = [k \in 1..Len(arenas) |->
                      [node \in 1..(Len(arenas[k]) + 1) |-> is_empty(node, arenas[k])]]
    /\ ipc' = "emptied"
    /\ UNCHANGED <<arenas, ir_flat, ir_edges>>
    /\ UNCHANGED otherThanIr

\* IR::flatten(root, arena, fmt)
Flatten ==
    /\ ipc = "emptied"
    /\ ir_flat' = [k \in 1..Len(arenas) |-> flatten(1, arenas[k])]
    /\ ipc' = "flat"
    /\ UNCHANGED <<arenas, ir_empty, ir_edges>>
    /\ UNCHANGED otherThanIr

\* IR::to_edge_stream(root, arena, fmt)
ToEdgeStream ==
    /\ ipc = "flat"
    /\ ir_edges' = [k \in 1..Len(arenas) |-> to_edge_stream(1, arenas[k])]
    /\ ipc' = "done"
    /\ UNCHANGED <<arenas, ir_empty, ir_flat>>
    /\ UNCHANGED otherThanIr

NextIr == NewNode \/ IsEmpty \/ Flatten \/ ToEdgeStream
SpecIr == InitIr /\ [][NextIr]_vars
NextPair == IsEmpty \/ Flatten \/ ToEdgeStream
SpecPair == InitPair /\ [][NextPair]_vars

(***************************************************************************)
(* The IR mutations of transforms.rs.  They work on an IR that owns its    *)
(* children: a Seq has contents, a sequence of (IR, GroupVars) pairs       *)
(* [ir, gv]; a ConditionalDisamb and a YearSuffix have one IR, `ir`.  Here *)
(* every IR is [kind, text, hook, filled, contents, f]: text is the        *)
(* content of a Rendered ("None" for Rendered(None)), hook the hook of a   *)
(* YearSuffix, filled whether the ir of a YearSuffix is not empty,         *)
(* contents the pairs of a Seq or the one pair holding the ir of a         *)
(* ConditionalDisamb, and f the other fields of an IrSeq.                  *)
(***************************************************************************)
\* children of the root Seq given to split_first_field
MaxContents == 3
\* children of the root Seq given to suppress_year
MaxItems == 2

\* IrSeq without its contents, and IrSeq::default()
SeqFields(display, formatting, affixes, delimiter, dropped_gv, quotes, text_case) ==
    [display |-> display, formatting |-> formatting, affixes |-> affixes,
     delimiter |-> delimiter, dropped_gv |-> dropped_gv, quotes |-> quotes,
     text_case |-> text_case]
DefaultFields == SeqFields("None", "None", NoAffixes, <<>>, "None", FALSE, "None")

OwnedIr(kind, text, hook, filled, contents) ==
    [kind |-> kind, text |-> text, hook |-> hook, filled |-> filled,
     contents |-> contents, f |-> DefaultFields]
OwnedRendered(text) == OwnedIr("Rendered", text, "None", FALSE, <<>>)
OwnedYearSuffix(hook, filled) == OwnedIr("YearSuffix", "None", hook, filled, <<>>)
OwnedConditionalDisamb(ir) ==
    OwnedIr("ConditionalDisamb", "None", "None", FALSE, <<[ir |-> ir, gv |-> "Important"]>>)
OwnedSeq(contents, f) ==
    [kind |-> "Seq", text |-> "None", hook |-> "None", filled |-> FALSE,
     contents |-> contents, f |-> f]

\* a split_first_field that leaves the affixes on the root
split_first_field_root_affixes(self) ==
    IF self.kind = "Seq" /\ Len(self.contents) > 1
    THEN LET first == self.contents[1]
             me == [self EXCEPT !.contents = Tail(self.contents)]
         IN  OwnedSeq(
                 <<[ir |-> OwnedSeq(<<first>>,
                        [DefaultFields EXCEPT !.display = "LeftMargin"]),
                    gv |-> first.gv],
                   [ir |-> OwnedSeq(me.contents,
                        [DefaultFields EXCEPT !.display = "RightInline"]),
                    gv |-> "Important"]>>,
                 SeqFields("None", me.f.formatting, me.f.affixes, me.f.delimiter,
                           "None", me.f.quotes, me.f.text_case))
    ELSE self

\* IR::split_first_field: self afterwards
split_first_field(self) ==
    IF self.kind = "Seq" /\ Len(self.contents) > 1
    THEN LET first == self.contents[1]
             me == [self EXCEPT !.contents = Tail(self.contents),
                                !.f.display = "RightInline"]
             afpre == IF me.f.affixes.some
                      THEN SomeAffixes(me.f.affixes.prefix, <<>>) ELSE NoAffixes
             afsuf == IF me.f.affixes.some
                      THEN SomeAffixes(<<>>, me.f.affixes.suffix) ELSE NoAffixes
         IN  OwnedSeq(
                 <<[ir |-> OwnedSeq(<<first>>,
                        [DefaultFields EXCEPT !.display = "LeftMargin",
                                              !.affixes = afpre]),
                    gv |-> first.gv],
                   [ir |-> OwnedSeq(me.contents,
                        [DefaultFields EXCEPT !.display = "RightInline",
                                              !.affixes = afsuf]),
                    gv |-> "Important"]>>,
                 SeqFields("None", me.f.formatting, NoAffixes, me.f.delimiter,
                           "None", me.f.quotes, me.f.text_case))
    ELSE self

\* the IRs split_first_field is called on
SplitKids == {[ir |-> OwnedRendered(t), gv |-> g] :
                 t \in {"a", "b"}, g \in {"Important", "Missing"}}
SplitAffixes ==
    {NoAffixes} \cup {SomeAffixes(p, s) : p \in {<<>>, <<"(">>}, s \in {<<>>, <<")">>}}
SplitFields ==
    {SeqFields(dp, fm, af, dl, dg, q, tc) :
        dp \in {"None", "Block"}, fm \in {"None", "Italic"}, af \in SplitAffixes,
        dl \in {<<>>, <<",">>}, dg \in {"None", "Important"}, q \in BOOLEAN,
        tc \in {"None", "Title"}}

InitSplit ==
    /\ IterIdle /\ PassIdle /\ DisambIdle /\ RangeIdle /\ GroupIdle
    /\ IrIdle /\ YearIdle /\ NfaIdle
    /\ \/ \E t \in {"None", "a"} : sf_ir0 = OwnedRendered(t)
       \/ \E n \in 0..MaxContents :
            \E c \in [1..n -> SplitKids], f \in SplitFields : sf_ir0 = OwnedSeq(c, f)
    /\ sf_ir = sf_ir0
    /\ spc = "ready"

\* ir.split_first_field()
SplitFirstField ==
    /\ spc = "ready"
    /\ sf_ir' = split_first_field(sf_ir)
    /\ spc' = "done"
    /\ UNCHANGED sf_ir0
    /\ UNCHANGED <<iterVars, passVars, disambVars, rangeVars, groupVars, irVars, yearVars,
                   nfaVars>>

NextSplit == SplitFirstField
SpecSplit == InitSplit /\ [][NextSplit]_vars

(***************************************************************************)
(* IR::suppress_year                                                       *)
(***************************************************************************)
\* IR::has_explicit_year_suffix
RECURSIVE has_explicit_year_suffix(_)
has_explicit_year_suffix(self) ==
    CASE self.kind = "YearSuffix" -> self.hook = "Explicit" /\ self.filled
      [] self.kind = "ConditionalDisamb" ->
            has_explicit_year_suffix(self.contents[1].ir)
      [] self.kind = "Seq" ->
            \E i \in 1..Len(self.contents) :
                has_explicit_year_suffix(self.contents[i].ir)
      [] OTHER -> FALSE

\* the two arms of `match (second, gv)` that replace the first child
year_suffix_follows(second, gv, has_explicit) ==
    /\ second.kind = "YearSuffix"
    /\ \/ gv = "Unresolved" /\ has_explicit
       \/ gv = "Important" /\ ~has_explicit /\ second.filled

RECURSIVE suppress_first_year(_, _), suppress_first_year_in(_, _, _)

\* `for (ir, _) in seq.contents.iter_mut()`, from the i-th child on: the
\* contents afterwards and whether a child returned true
suppress_first_year_in(contents, i, has_explicit) ==
    IF i > Len(contents) THEN [contents |-> contents, found |-> FALSE]
    ELSE LET r == suppress_first_year(contents[i].ir, has_explicit)
             c == [contents EXCEPT ![i].ir = r.ir]
         IN  IF r.found THEN [contents |-> c, found |-> TRUE]
             ELSE suppress_first_year_in(c, i + 1, has_explicit)

\* IR::suppress_first_year: self afterwards and the returned bool
suppress_first_year(self, has_explicit) ==
    CASE self.kind = "ConditionalDisamb" ->
            LET r == suppress_first_year(self.contents[1].ir, has_explicit)
            IN  [ir |-> [self EXCEPT !.contents[1].ir = r.ir], found |-> FALSE]
      [] self.kind = "Seq" ->
            IF /\ Len(self.contents) = 2
               /\ year_suffix_follows(self.contents[2].ir, self.contents[2].gv,
                                      has_explicit)
            THEN [ir |-> [self EXCEPT !.contents[1].ir = OwnedRendered("None")],
                  found |-> TRUE]
            ELSE LET r == suppress_first_year_in(self.contents, 1, has_explicit)
                 IN  [ir |-> [self EXCEPT !.contents = r.contents],
                      found |-> r.found]
      [] OTHER -> [ir |-> self, found |-> FALSE]

\* IR::suppress_year: self afterwards
suppress_year(self) ==
    suppress_first_year(self, has_explicit_year_suffix(self)).ir

\* the IRs suppress_year is called on: a rendered year, year-suffix hooks,
\* two-child Seqs of a year and something, ConditionalDisambs of those, and
\* Seqs of up to MaxItems of all these
YearLeaves ==
    {OwnedRendered("y"), OwnedRendered("None")}
        \cup {OwnedYearSuffix(h, fl) : h \in {"Explicit", "Plain"}, fl \in BOOLEAN}
YearPairs ==
    {OwnedSeq(<<[ir |-> OwnedRendered("y"), gv |-> "Important"],
                [ir |-> second, gv |-> gv]>>, DefaultFields) :
        second \in YearLeaves, gv \in {"Unresolved", "Important"}}
YearItems ==
    YearLeaves \cup YearPairs
        \cup {OwnedConditionalDisamb(x) : x \in YearLeaves \cup YearPairs}
YearEntries ==
    {e \in [ir : YearItems, gv : {"Unresolved", "Important"}] :
        e.gv = "Unresolved" => e.ir.kind = "YearSuffix"}

InitYear ==
    /\ IterIdle /\ PassIdle /\ DisambIdle /\ RangeIdle /\ GroupIdle
    /\ IrIdle /\ SplitIdle /\ NfaIdle
    /\ \/ \E x \in YearItems : sy_ir0 = x
       \/ \E n \in 0..MaxItems :
            \E c \in [1..n -> YearEntries] : sy_ir0 = OwnedSeq(c, DefaultFields)
    /\ sy_ir = sy_ir0
    /\ ypc = "ready"

\* ir.suppress_year()
SuppressYear ==
    /\ ypc = "ready"
    /\ sy_ir' = suppress_year(sy_ir)
    /\ ypc' = "done"
    /\ UNCHANGED sy_ir0
    /\ UNCHANGED <<iterVars, passVars, disambVars, rangeVars, groupVars, irVars, splitVars,
                   nfaVars>>

NextYear == SuppressYear
SpecYear == InitYear /\ [][NextYear]_vars

(***************************************************************************)
(* The NFA-building loop of Names::ref_ir, for one name variable (one nir  *)
(* of name_irs).  A NodeIndex is the number of nodes the graph held when   *)
(* the node was added.  names_to_builds and ntb_len (crates/proc/src/      *)
(* names.rs) and graph_with_stack and add_to_graph (disamb/mod.rs) are     *)
(* called here and defined elsewhere: names_to_builds shows the first      *)
(* et-al-use-first + bump_name_count names, joined by the delimiter and    *)
(* followed by the et-al term when names are left out; ntb_len counts the  *)
(* name tokens; add_to_graph appends an edge and returns the new frontier, *)
(* or returns the frontier it was given when there is no edge;             *)
(* graph_with_stack runs the closure between the edges of the name         *)
(* element's prefix and suffix.                                            *)
(***************************************************************************)
\* names in one name variable
MaxDisambNames == 2

\* DisambNameRatchet: a literal whose build is empty, another literal, a person
Ratchets == {"LiteralEmpty", "Literal", "Person"}
\* NameTokenBuilt
Ratchet(r, primary) == [kind |-> "Ratchet", what |-> r, primary |-> primary]
Built(text) == [kind |-> "Built", what |-> text, primary |-> FALSE]

Min(a, b) == IF a <= b THEN a ELSE b

names_to_builds(names, use_first, delimiter, bump) ==
    LET k == Min(Len(names), use_first + bump)
        joined == [j \in 1..(2 * k - 1) |->
                      IF j % 2 = 1 THEN Ratchet(names[(j + 1) \div 2], j = 1)
                      ELSE Built(delimiter)]
    IN  joined \o (IF k < Len(names) THEN <<Built("et al.")>> ELSE <<>>)

ntb_len(v) == Len(SelectSeq(v, LAMBDA t : t.kind = "Ratchet"))

\* a graph under construction with the frontier of the run: [nfa, spot]
\* add_to_graph(db, fmt, nfa, &RefIR::Edge(e), spot)
add_to_graph(g, some_edge, spot) ==
    IF some_edge
    THEN [nfa |-> [g EXCEPT !.nodes = @ + 1], spot |-> g.nodes]
    ELSE [nfa |-> g, spot |-> spot]

\* the name element of every person name, before any pass
PersonEl == [form |-> "Short", initialize |-> "true", initialize_with |-> "."]

\* add_expanded_name_to_graph: next_spot, the original edge, and per pass a
\* new start node and the edge of the expanded name
add_expanded_name_to_graph(g, primary, rule, spot) ==
    LET passes == Len(collect(disamb_iter(PersonEl, primary, rule)))
        next_spot == g.nodes
        firsts == {next_spot + 2 * i : i \in 1..passes}
    IN  [nfa |-> [g EXCEPT !.nodes = @ + 2 + 2 * passes,
                           !.start = @ \cup firsts],
         spot |-> next_spot]

\* the closure given to graph_with_stack: `for ntb in &ntbs { ... }`
RECURSIVE for_ntb(_, _, _, _, _)
for_ntb(g, tokens, i, rule, spot) ==
    IF i > Len(tokens) THEN [nfa |-> g, spot |-> spot]
    ELSE LET ntb == tokens[i]
             r == CASE ntb.kind = "Ratchet" /\ ntb.what = "Person" ->
                         add_expanded_name_to_graph(g, ntb.primary, rule, spot)
                    [] ntb.kind = "Ratchet" /\ ntb.what = "Literal" ->
                         add_to_graph(g, TRUE, spot)
                    [] ntb.kind = "Ratchet" /\ ntb.what = "LiteralEmpty" ->
                         [nfa |-> g, spot |-> spot]
                    [] ntb.kind = "Built" ->
                         IF ntb.what # "" THEN add_to_graph(g, TRUE, spot)
                         ELSE [nfa |-> g, spot |-> spot]
         IN  for_ntb(r.nfa, tokens, i + 1, rule, r.spot)

graph_with_stack(g, affixes, spot, tokens, rule) ==
    LET pre == add_to_graph(g, affixes, spot)
        run == for_ntb(pre.nfa, tokens, 1, rule, pre.spot)
    IN  add_to_graph(run.nfa, affixes, run.spot)

\* `let start = nfa.graph.add_node(())` on a new Nfa
start == 0

NfaInputs ==
    [names : UNION {[1..n -> Ratchets] : n \in 0..MaxDisambNames},
     use_first : 1..MaxDisambNames,
     delimiter : {"", ", "},
     affixes : BOOLEAN,
     rule : Rules]

InitNfa ==
    /\ IterIdle /\ PassIdle /\ DisambIdle /\ RangeIdle /\ GroupIdle
    /\ IrIdle /\ SplitIdle /\ YearIdle
    /\ nin \in NfaInputs
    /\ nfa = [nodes |-> 1, start |-> {start}, accepting |-> {}]
    /\ bump_name_count = 0
    /\ ntbs = names_to_builds(nin.names, nin.use_first, nin.delimiter, 0)
    /\ max_counted_tokens = 0
    /\ counted_tokens = ntb_len(ntbs)
    /\ one_run = <<>>
    /\ seq_contents = 0
    /\ npc = "while"

otherThanNfa == <<iterVars, passVars, disambVars, rangeVars, groupVars,
                  irVars, splitVars, yearVars>>

\* `while counted_tokens > max_counted_tokens`
While ==
    /\ npc = "while"
    /\ npc' = IF counted_tokens > max_counted_tokens THEN "run" ELSE "exit"
    /\ UNCHANGED <<nin, nfa, bump_name_count, ntbs, max_counted_tokens,
                   counted_tokens, one_run, seq_contents>>
    /\ UNCHANGED otherThanNfa

\* `let one_run = graph_with_stack(...)`
Run ==
    /\ npc = "run"
    /\ LET r == graph_with_stack(nfa, nin.affixes, start, ntbs, nin.rule)
       IN  nfa' = r.nfa /\ one_run' = <<r.spot>>
    /\ npc' = "ran"
    /\ UNCHANGED <<nin, bump_name_count, ntbs, max_counted_tokens, counted_tokens,
                   seq_contents>>
    /\ UNCHANGED otherThanNfa

\* `if one_run == start { continue; }`
Continue ==
    /\ npc = "ran"
    /\ one_run = <<start>>
    /\ npc' = "while"
    /\ UNCHANGED <<nin, nfa, bump_name_count, ntbs, max_counted_tokens,
                   counted_tokens, one_run, seq_contents>>
    /\ UNCHANGED otherThanNfa

\* the rest of the loop body
Accept ==
    /\ npc = "ran"
    /\ one_run # <<start>>
    /\ nfa' = [nfa EXCEPT !.accepting = @ \cup {one_run[1]}]
    /\ bump_name_count' = bump_name_count + 1
    /\ ntbs' = names_to_builds(nin.names, nin.use_first, nin.delimiter,
                               bump_name_count + 1)
    /\ max_counted_tokens' = counted_tokens
    /\ counted_tokens' = ntb_len(ntbs')
    /\ npc' = "while"
    /\ UNCHANGED <<nin, one_run, seq_contents>>
    /\ UNCHANGED otherThanNfa

\* `if !nfa.accepting.is_empty() { seq.contents.push(...) }`
Push ==
    /\ npc = "exit"
    /\ seq_contents' = IF nfa.accepting # {} THEN seq_contents + 1 ELSE seq_contents
    /\ npc' = "done"
    /\ UNCHANGED <<nin, nfa, bump_name_count, ntbs, max_counted_tokens,
                   counted_tokens, one_run>>
    /\ UNCHANGED otherThanNfa

NextNfa == While \/ Run \/ Continue \/ Accept \/ Push
\* the loop runs on its own: a step that can be taken is taken
SpecNfa == InitNfa /\ [][NextNfa]_vars /\ WF_vars(NextNfa)

(***************************************************************************)
(* Claims about the iterator, checked under SpecIter.                      *)
(***************************************************************************)
\* "initialize-with in effect": initialize_with is set and initialize = true
InEffect(el) == el.initialize_with # "None" /\ el.initialize = "true"
\* an unset form counts as Long
IsShort(el) == el.form = "Short"

\* the pass sequence the method table of the specification gives
ExpectedPasses(method, el) ==
    CASE method = "None" -> <<>>
      [] method = "AddInitials" ->
           IF InEffect(el) /\ IsShort(el) THEN <<"WithFormLong">> ELSE <<>>
      [] method = "AddInitialsThenGivenName" ->
           CASE InEffect(el) /\ IsShort(el) -> <<"WithFormLong", "WithInitializeFalse">>
             [] InEffect(el) /\ ~IsShort(el) -> <<"WithInitializeFalse">>
             [] ~InEffect(el) /\ IsShort(el) -> <<"WithFormLong">>
             [] OTHER -> <<>>

\* what `iter.collect()` has gathered once next() returned None: the passes
\* before the first None
FirstNone == CHOOSE i \in 1..Len(outs) :
                 outs[i] = "None" /\ \A j \in 1..(i - 1) : outs[j] # "None"
Collected == SubSeq(outs, 1, FirstNone - 1)

\* C1: for every method and name element, collecting a fresh iterator until it
\* returns None yields exactly the pass sequence of the method table.
C1_CollectedPasses ==
    Nones >= 1 => Collected = ExpectedPasses(iter.method, iter_el)

\* C1's case: the two-pass sequence of scenario S1 has been collected
C1_Witness ==
    /\ Nones >= 1
    /\ iter.method = "AddInitialsThenGivenName"
    /\ Collected = <<"WithFormLong", "WithInitializeFalse">>

\* C2: from_rule gives AddInitialsThenGivenName for ByCite and AllNames,
\* AddInitials for AllNamesWithInitials, both whatever primary is; for
\* PrimaryName and PrimaryNameWithInitials it gives AddInitialsThenGivenName
\* and AddInitials when primary, and None when not primary.
C2_FromRule ==
    iter_rule # "NoRule" =>
        /\ iter_rule \in {"ByCite", "AllNames"} => iter.method = "AddInitialsThenGivenName"
        /\ iter_rule = "AllNamesWithInitials" => iter.method = "AddInitials"
        /\ (iter_rule = "PrimaryName" /\ iter_primary) =>
               iter.method = "AddInitialsThenGivenName"
        /\ (iter_rule = "PrimaryNameWithInitials" /\ iter_primary) =>
               iter.method = "AddInitials"
        /\ (iter_rule \in {"PrimaryName", "PrimaryNameWithInitials"} /\ ~iter_primary) =>
               iter.method = "None"

\* C2's case: a non-primary name under PrimaryName got method None
C2_Witness ==
    /\ iter.state # "Unbuilt"
    /\ iter_rule = "PrimaryName" /\ ~iter_primary
    /\ iter.method = "None"

Rank(state) ==
    CASE state = "Original" -> 0
      [] state = "AddedInitials" -> 1
      [] state = "AddedGivenName" -> 2

\* C3: repeated next() calls yield at most 2 passes before None is returned
\* (so the third call at the latest returns None), and the state only moves
\* forward along Original, AddedInitials, AddedGivenName: it never returns to
\* a state it has left.
C3_AtMostTwoForward ==
    /\ Len(Yielded) <= 2
    /\ Len(outs) >= 3 => Nones >= 1
    /\ \A i, j \in 1..Len(trail) : i <= j => Rank(trail[i]) <= Rank(trail[j])
    /\ \A i, j, k \in 1..Len(trail) :
          (i < j /\ j < k /\ trail[i] = trail[k]) => trail[j] = trail[i]

\* C3's case: two passes were yielded through all three states, then None
C3_Witness ==
    /\ outs = <<"WithFormLong", "WithInitializeFalse", "None">>
    /\ trail = <<"Original", "AddedInitials", "AddedGivenName", "AddedGivenName">>

(***************************************************************************)
(* Claims about apply_pass, checked under SpecPass.                        *)
(***************************************************************************)
RECURSIVE ApplyAll(_, _)
ApplyAll(el, passes) ==
    IF passes = <<>> THEN el
    ELSE ApplyAll(apply_pass(el, Head(passes)), Tail(passes))

PassSeqs == UNION {[1..n -> NameDisambPasses] : n \in 0..MaxPasses}
Occurring(passes) == {passes[i] : i \in 1..Len(passes)}

\* C8: the name element reached by a sequence of passes depends only on
\* which passes occur in it, not on their order or on repetitions: every
\* other sequence with the same passes occurring reaches the same element.
C8_PassSetDecides ==
    \A other \in PassSeqs :
        Occurring(other) = Occurring(pass_log) => ApplyAll(pass_el0, other) = pass_el

\* C8's case: both passes applied, one of them twice and out of the
\* iterator's order, to an element both passes change
C8_Witness ==
    /\ pass_log = <<"WithInitializeFalse", "WithFormLong", "WithInitializeFalse">>
    /\ pass_el0.form = "Short" /\ pass_el0.initialize = "true"
    /\ pass_el.form = "Long" /\ pass_el.initialize = "false"

(***************************************************************************)
(* Claims about global name disambiguation, checked under SpecDisamb.      *)
(***************************************************************************)
\* the edges a matcher holds, and the names whose matcher holds an edge
EdgesOf(matcher) == {matcher[k] : k \in 1..Len(matcher)}
Accepting(edge) == {i \in 1..Len(matchers) : edge \in EdgesOf(matchers[i])}
OthersAccepting(r, edge) == Accepting(edge) \ {r}

\* the passes the method table gives a name under the style's rule, and the
\* edges rendered after each of its prefixes, the empty one included
PassesOf(data) == ExpectedPasses(from_rule(style.rule, data.primary), data.el)
AfterPrefix(data, k) ==
    [data EXCEPT !.el = ApplyAll(data.el, SubSeq(PassesOf(data), 1, k))]
PrefixEdges(data) ==
    {single_name_edge(AfterPrefix(data, k)) : k \in 0..Len(PassesOf(data))}

\* C4: after disambiguated_person_names, for every name whose recorded data
\* differs from its original data, no other name's matcher accepts the edge
\* rendered from the recorded data.
C4_ExpandedIsUnambiguous ==
    dpc = "done" =>
        \A r \in DOMAIN results :
            results[r] # lookup(r) =>
                OthersAccepting(r, single_name_edge(results[r])) = {}

\* C4's case: a name was recorded expanded because another name's matcher
\* accepts its original edge
C4_Witness ==
    /\ dpc = "done"
    /\ \E r \in DOMAIN results :
          /\ results[r] # lookup(r)
          /\ OthersAccepting(r, single_name_edge(lookup(r))) # {}

\* C5 as stated: after global name disambiguation, for every reference R no
\* other reference's matcher accepts the edge rendered from R's final data,
\* with no exception for names that could not be disambiguated.
C5_NoOtherAccepts ==
    dpc = "done" =>
        \A r \in DOMAIN results :
            OthersAccepting(r, single_name_edge(results[r])) = {}

\* C5 as amended: for every reference R no other reference's matcher accepts
\* the edge rendered from R's final data, unless R was reset: it is recorded
\* with its original data, because the edge after every prefix of its pass
\* sequence is accepted by more than one matcher.
C5_NoOtherAcceptsUnlessReset ==
    dpc = "done" =>
        \A r \in DOMAIN results :
            \/ OthersAccepting(r, single_name_edge(results[r])) = {}
            \/ /\ r \in was_reset
               /\ results[r] = lookup(r)
               /\ \A e \in PrefixEdges(lookup(r)) : Cardinality(Accepting(e)) > 1

\* C5's case: one name ended unambiguous after an expansion, another was reset
C5_Witness ==
    /\ dpc = "done"
    /\ was_reset # {}
    /\ \E r \in DOMAIN results :
          /\ r \notin was_reset
          /\ results[r] # lookup(r)
          /\ OthersAccepting(r, single_name_edge(results[r])) = {}

\* C6: when a name's edge is still ambiguous and its iterator is exhausted,
\* the data recorded for it is exactly its original data, never a partly
\* expanded one; so two names that render the same under every expansion
\* are both recorded with their original data.
C6_ResetToOriginal ==
    /\ \A r \in was_reset : results[r] = lookup(r)
    /\ dpc = "done" =>
          \A r \in DOMAIN results :
              (\A e \in PrefixEdges(lookup(r)) : Cardinality(Accepting(e)) > 1)
                  => (r \in was_reset /\ results[r] = lookup(r))

\* C6's case: two names with the same renderings, each with two passes to
\* try, were both expanded to exhaustion and reset
C6_Witness ==
    /\ dpc = "done"
    /\ was_reset = {1, 2}
    /\ PrefixEdges(lookup(1)) = PrefixEdges(lookup(2))
    /\ Len(PassesOf(lookup(1))) = 2
    /\ results[1] = lookup(1) /\ results[2] = lookup(2)

\* C7: the edges a name's matcher accepts are exactly the edges rendered from
\* its data after each prefix, the empty one included, of the pass sequence
\* its iterator yields under the style's rule; a matcher holds between 1 and
\* 3 edges, and accepts the edge of every expansion the second loop reaches.
C7_MatcherIsPrefixEdges ==
    /\ \A i \in 1..Len(matchers) :
          /\ EdgesOf(matchers[i]) = PrefixEdges(lookup(i))
          /\ Len(matchers[i]) = 1 + Len(PassesOf(lookup(i)))
          /\ Len(matchers[i]) \in 1..3
    /\ dpc = "loop" => cur.edge \in EdgesOf(matchers[cur.ix])

\* C7's case: a matcher of three different edges, and the loop standing at
\* its name's second expansion
C7_Witness ==
    /\ dpc = "loop"
    /\ Cardinality(EdgesOf(matchers[cur.ix])) = 3
    /\ cur.edge = matchers[cur.ix][3]

(***************************************************************************)
(* Claims about collapse_ranges, checked under SpecRanges.                 *)
(***************************************************************************)
\* the input positions that start a run: the first, and every one whose
\* number is not its predecessor's plus one
RunStarts == {i \in 1..Len(nums) : i = 1 \/ nums[i].cnum # nums[i - 1].cnum + 1}
RunEnd(s) == CHOOSE e \in s..Len(nums) :
                 /\ \A k \in (s + 1)..e : k \notin RunStarts
                 /\ e = Len(nums) \/ (e + 1) \in RunStarts
PieceOfRun(s) ==
    IF RunEnd(s) = s THEN Single(nums[s]) ELSE Range(nums[s], nums[RunEnd(s)])
\* the pieces of the maximal runs, in input order
RECURSIVE RunPieces(_)
RunPieces(s) ==
    IF s > Len(nums) THEN <<>> ELSE <<PieceOfRun(s)>> \o RunPieces(RunEnd(s) + 1)

\* C9: collapse_ranges splits its input, in order, into the maximal runs in
\* which each number is one more than its predecessor, giving Range(first,
\* last) for a run of two or more and Single(x) for a run of one, endpoints
\* keeping their (cnum, ix); the empty input gives the empty output.
C9_MaximalRuns ==
    pieces.status # "pending" =>
        /\ pieces.status = "ok"
        /\ pieces.pieces = RunPieces(1)

\* where no number after the first is 0, so that `nxt.cnum - 1` stays in
\* range, the returned pieces are those of the maximal runs
RangesRightWithoutUnderflow ==
    (pieces.status # "pending" /\ \A i \in 2..Len(nums) : nums[i].cnum # 0) =>
        /\ pieces.status = "ok"
        /\ pieces.pieces = RunPieces(1)

(***************************************************************************)
(* Claims about group_and_collapse, checked under SpecGroup.               *)
(***************************************************************************)
\* cite k (1-based) is in a run of two or more adjacent cites with the same
\* first-name-block output, and is the first of such a run
SameName(k, l) ==
    /\ k \in 1..Len(cites) /\ l \in 1..Len(cites)
    /\ cites[k].name # "None" /\ cites[k].name = cites[l].name
InRun(k) == SameName(k, k - 1) \/ SameName(k, k + 1)
FirstOfRun(k) == InRun(k) /\ ~SameName(k, k - 1)

\* C10: after group_and_collapse with a collapse other than CitationNumber
\* and no cite with a user prefix or suffix, every run of two or more
\* adjacent cites with the same first-name-block output has its first cite
\* marked is_first and its other cites marked should_collapse, and no other
\* cite carries either mark.
C10_RunsAreMarked ==
    (/\ gpc = "done"
     /\ collapse # "CitationNumber"
     /\ \A k \in 1..Len(cites) : ~has_affix(cites[k])) =>
        \A k \in 1..Len(cites) :
            /\ FirstOfRun(k) => cites[k].is_first
            /\ (InRun(k) /\ ~FirstOfRun(k)) => cites[k].should_collapse
            /\ ~InRun(k) => (~cites[k].is_first /\ ~cites[k].should_collapse)

\* C11: after group_and_collapse with a collapse other than CitationNumber,
\* every cite marked should_collapse has no user prefix or suffix, and the
\* cite right before it in the resulting order has no user suffix.
C11_NoGroupingAcrossAffixes ==
    (gpc = "done" /\ collapse # "CitationNumber") =>
        \A k \in 1..Len(cites) :
            cites[k].should_collapse =>
                /\ ~has_affix(cites[k])
                /\ k > 1 => ~cites[k - 1].has_suffix

\* a cluster where one cite was collapsed and another, following a cite of
\* the same name that has a user suffix, was not
C11_Witness ==
    /\ gpc = "done" /\ collapse # "CitationNumber"
    /\ \E k \in 1..Len(cites) : cites[k].should_collapse
    /\ \E j \in 1..(Len(cites) - 1) :
          /\ cites[j].has_suffix
          /\ SameName(j, j + 1)
          /\ ~cites[j + 1].should_collapse

YearCollapses == {"Year", "YearSuffix", "YearSuffixRanged"}
NamesSuppressed(u) == \E i \in 1..Len(u.ir_ops) : u.ir_ops[i] = "suppress_names"

\* C12: after group_and_collapse with collapse = Year, YearSuffix or
\* YearSuffixRanged, every cite marked should_collapse has had the content
\* of its first name block replaced by Rendered(None), and the IR of every
\* cite not marked should_collapse is unchanged.
C12_CollapsedNamesSuppressed ==
    (gpc = "done" /\ collapse \in YearCollapses) =>
        \A k \in 1..Len(cites) :
            /\ cites[k].should_collapse => NamesSuppressed(cites[k])
            /\ ~cites[k].should_collapse => cites[k].ir_ops = <<>>

\* the IR of a cite that is not marked should_collapse is never touched
UnmarkedKeepIr ==
    gpc = "done" =>
        \A k \in 1..Len(cites) :
            ~cites[k].should_collapse => cites[k].ir_ops = <<>>

\* the citation numbers of all cites in the resulting order, with positions
AllCnums ==
    LET some == SelectSeq([k \in 1..Len(cites) |-> k],
                          LAMBDA k : cites[k].cnum # <<>>)
    IN  [j \in 1..Len(some) |-> CnumIx(cites[some[j]].cnum[1], some[j] - 1)]

SuffixNums(k, cnt) ==
    [j \in 1..(cnt + 1) |-> CnumIx(cites[k + j - 1].suffix_num[1], k + j - 2)]

\* C14: after group_and_collapse with collapse = YearSuffixRanged, the first
\* cite of a group of collapsed cites whose year-suffix numbers are
\* consecutive carries those numbers, range-compressed, in
\* collapsed_year_suffixes.
C14_YearSuffixesRanged ==
    (gpc = "done" /\ collapse = "YearSuffixRanged") =>
        \A k \in 1..Len(cites) :
            LET cnt == take_while_should_collapse(cites, k + 1)
            IN  (/\ cites[k].is_first /\ ~cites[k].should_collapse
                 /\ cnt >= 1
                 /\ \A j \in k..(k + cnt) : cites[j].suffix_num # <<>>
                 /\ \A j \in k..(k + cnt - 1) :
                       cites[j + 1].suffix_num[1] = cites[j].suffix_num[1] + 1) =>
                    cites[k].collapsed_year_suffixes
                        = collapse_ranges("release", SuffixNums(k, cnt)).pieces

(***************************************************************************)
(* Claims about the IR tree, checked under SpecIr and SpecPair.            *)
(***************************************************************************)
Containers == {"Seq", "Name", "ConditionalDisamb", "YearSuffix"}

\* C15: IR::is_empty(node, arena) is true exactly when the node is
\* Rendered(None), or is a Seq, Name, ConditionalDisamb or YearSuffix node
\* without children; it is false for Rendered(Some(_)), for such a container
\* with a child, and for NameCounter.
C15_IsEmpty ==
    ipc \in {"emptied", "flat", "done"} =>
        \A k \in 1..Len(arenas) : \A node \in 1..Len(arenas[k]) :
            ir_empty[k][node] =
                (\/ arenas[k][node].ir = Rendered(NoneCed)
                 \/ /\ arenas[k][node].ir.kind \in Containers
                    /\ arenas[k][node].children = <<>>)

\* is_empty answers false for Rendered(Some(_)), NameCounter and a NodeId
\* that is not in the arena, and true for Rendered(None)
IsEmptyOffContainers ==
    ipc \in {"emptied", "flat", "done"} =>
        \A k \in 1..Len(arenas) :
            /\ ~ir_empty[k][Len(arenas[k]) + 1]
            /\ \A node \in 1..Len(arenas[k]) :
                  arenas[k][node].ir.kind \notin Containers =>
                      ir_empty[k][node] = (arenas[k][node].ir = Rendered(NoneCed))

\* C16: for a Seq with dropped_gv set, if folding neighbour over dropped_gv
\* and the stored group-vars of its children gives Missing, IR::flatten of
\* the Seq returns None, whatever its children contain.
C16_MissingSeqFlattensToNone ==
    ipc \in {"flat", "done"} =>
        \A k \in 1..Len(arenas) :
            LET root == arenas[k][1]
            IN  (/\ root.ir.kind = "Seq"
                 /\ root.ir.seq.dropped_gv # "None"
                 /\ fold_neighbour(root.ir.seq.dropped_gv, arenas[k],
                                    root.children, 1) = "Missing") =>
                    ir_flat[k] = None

\* every Rendered of the arena is Rendered(None) or a plain Output, and no
\* node is a year-suffix hook
PlainTree(arena) ==
    \A node \in 1..Len(arena) :
        /\ arena[node].ir.kind = "Rendered" => arena[node].ir.ced.variant \in {"None", "Output"}
        /\ arena[node].ir.kind # "YearSuffix"

\* the Output strings of an edge stream, concatenated in order
RECURSIVE EdgeText(_)
EdgeText(edges) ==
    IF edges = <<>> THEN <<>> ELSE Head(edges).text \o EdgeText(Tail(edges))

\* C17: for a tree whose leaves are all plain Output fragments, the text of
\* IR::flatten is the in-order concatenation of the Output strings of
\* IR::to_edge_stream, and flatten returns None exactly when the edge
\* stream is empty, also for a Seq with affixes, delimiter or quotes whose
\* children are all Rendered(None).
C17_FlattenIsEdgeText ==
    ipc = "done" =>
        \A k \in 1..Len(arenas) :
            PlainTree(arenas[k]) =>
                /\ ir_flat[k].build = EdgeText(ir_edges[k])
                /\ ir_flat[k].some = (ir_edges[k] # <<>>)

\* where no Seq has quotes and every Seq that has children flattens to
\* something, flatten and the edge stream of a plain tree agree
EdgesMatchFilledUnquoted ==
    ipc = "done" =>
        \A k \in 1..Len(arenas) :
            (/\ PlainTree(arenas[k])
             /\ \A node \in 1..Len(arenas[k]) :
                   arenas[k][node].ir.kind = "Seq" =>
                       /\ ~arenas[k][node].ir.seq.quotes
                       /\ arenas[k][node].children # <<>>
                            => filter_map_flatten(arenas[k], arenas[k][node].children, 1) # <<>>) =>
                /\ ir_flat[k].build = EdgeText(ir_edges[k])
                /\ ir_flat[k].some = (ir_edges[k] # <<>>)

\* C18: two cite IR trees for which IR::to_edge_stream returns the same edge
\* sequence have the same IR::flatten output.
C18_SameEdgesSameFlatten ==
    (ipc = "done" /\ Len(arenas) = 2 /\ ir_edges[1] = ir_edges[2]) =>
        ir_flat[1] = ir_flat[2]

(***************************************************************************)
(* Claims about split_first_field, checked under SpecSplit.                *)
(***************************************************************************)
PrefixOf(affixes) == IF affixes.some THEN affixes.prefix ELSE <<>>
SuffixOf(affixes) == IF affixes.some THEN affixes.suffix ELSE <<>>

\* C19: split_first_field on a root Seq with two or more children gives a
\* root Seq with exactly two children: a LeftMargin sub-seq holding only the
\* original first child, with the original prefix and an empty suffix, then
\* a RightInline sub-seq holding the remaining children in their order, with
\* an empty prefix and the original suffix; the root ends with no affixes;
\* a root that is not a Seq or has fewer than two children is unchanged.
C19_SplitFirstField ==
    spc = "done" =>
        IF sf_ir0.kind = "Seq" /\ Len(sf_ir0.contents) >= 2
        THEN /\ sf_ir.kind = "Seq"
             /\ Len(sf_ir.contents) = 2
             /\ ~sf_ir.f.affixes.some
             /\ LET left == sf_ir.contents[1].ir
                    right == sf_ir.contents[2].ir
                IN  /\ left.kind = "Seq"
                    /\ left.f.display = "LeftMargin"
                    /\ left.contents = <<sf_ir0.contents[1]>>
                    /\ PrefixOf(left.f.affixes) = PrefixOf(sf_ir0.f.affixes)
                    /\ SuffixOf(left.f.affixes) = <<>>
                    /\ right.kind = "Seq"
                    /\ right.f.display = "RightInline"
                    /\ right.contents = Tail(sf_ir0.contents)
                    /\ PrefixOf(right.f.affixes) = <<>>
                    /\ SuffixOf(right.f.affixes) = SuffixOf(sf_ir0.f.affixes)
        ELSE sf_ir = sf_ir0

\* a root Seq with a prefix, a suffix and three different children was split
C19_Witness ==
    /\ spc = "done"
    /\ sf_ir0.kind = "Seq" /\ Len(sf_ir0.contents) = 3
    /\ sf_ir0.contents[2] # sf_ir0.contents[3]
    /\ PrefixOf(sf_ir0.f.affixes) # <<>> /\ SuffixOf(sf_ir0.f.affixes) # <<>>
    /\ sf_ir # sf_ir0

(***************************************************************************)
(* Claims about suppress_year, checked under SpecYear.                     *)
(***************************************************************************)
RECURSIVE FirstYearSuppressed(_, _), FirstYearSuppressedIn(_, _, _)

\* the contents with the first qualifying position, in pre-order, at or
\* below the i-th child and its right siblings replaced
FirstYearSuppressedIn(contents, i, has_explicit) ==
    IF i > Len(contents) THEN [contents |-> contents, found |-> FALSE]
    ELSE LET r == FirstYearSuppressed(contents[i].ir, has_explicit)
         IN  IF r.found
             THEN [contents |-> [contents EXCEPT ![i].ir = r.ir], found |-> TRUE]
             ELSE FirstYearSuppressedIn(contents, i + 1, has_explicit)

\* the tree with the first position, in pre-order, that is the first child
\* of a two-child Seq whose second child is a qualifying year-suffix hook
\* replaced by Rendered(None), and whether there is such a position
FirstYearSuppressed(self, has_explicit) ==
    IF self.kind \notin {"Seq", "ConditionalDisamb"}
    THEN [ir |-> self, found |-> FALSE]
    ELSE IF /\ self.kind = "Seq" /\ Len(self.contents) = 2
            /\ year_suffix_follows(self.contents[2].ir, self.contents[2].gv,
                                   has_explicit)
    THEN [ir |-> [self EXCEPT !.contents[1].ir = OwnedRendered("None")],
          found |-> TRUE]
    ELSE LET r == FirstYearSuppressedIn(self.contents, 1, has_explicit)
         IN  [ir |-> [self EXCEPT !.contents = r.contents], found |-> r.found]

\* C20: suppress_year replaces at most one node of the tree with
\* Rendered(None): the first position, in pre-order, that is the first child
\* of a two-child Seq whose second child is a year-suffix hook (unresolved
\* with an explicit year suffix in the cite, or filled and Important); every
\* other node is unchanged, also when the position is inside a
\* ConditionalDisamb.
C20_SuppressYearOnce ==
    ypc = "done" =>
        sy_ir = FirstYearSuppressed(sy_ir0, has_explicit_year_suffix(sy_ir0)).ir

RECURSIVE HasConditionalDisamb(_)
HasConditionalDisamb(self) ==
    \/ self.kind = "ConditionalDisamb"
    \/ \E i \in 1..Len(self.contents) : HasConditionalDisamb(self.contents[i].ir)

\* on a tree without a ConditionalDisamb suppress_year replaces that one
\* position and nothing else
SuppressYearOnceWithoutConditional ==
    (ypc = "done" /\ ~HasConditionalDisamb(sy_ir0)) =>
        sy_ir = FirstYearSuppressed(sy_ir0, has_explicit_year_suffix(sy_ir0)).ir

(***************************************************************************)
(* Further claims about the iterator, checked under SpecIter.              *)
(***************************************************************************)
\* C21: no sequence of next() calls reaches an unreachable!() arm: with
\* method AddInitials the state is never AddedGivenName, with method
\* AddInitialsThenGivenName and initialize-with not in effect the state is
\* never AddedInitials, and so the next call enters no unreachable!() arm.
C21_NoUnreachableArm ==
    iter.state # "Unbuilt" =>
        /\ iter.method = "AddInitials" => iter.state # "AddedGivenName"
        /\ (iter.method = "AddInitialsThenGivenName" /\ ~iter.initialize_with) =>
               iter.state # "AddedInitials"
        /\ ~SingleNameDisambIter_next(iter).hit

\* C21's case: next() was called again after the state left Original, in the
\* match that holds the unreachable!() arm of AddInitialsThenGivenName
C21_Witness ==
    /\ iter.method = "AddInitialsThenGivenName" /\ ~iter.initialize_with
    /\ outs = <<"WithFormLong", "None", "None">>
    /\ trail = <<"Original", "AddedGivenName", "AddedGivenName", "AddedGivenName">>

\* the name elements that agree with el on whether initialize_with is set
\* and on whether the form is Short
SameSetAndShort(el) ==
    {o \in NameEls : /\ (o.initialize_with # "None") = (el.initialize_with # "None")
                      /\ IsShort(o) = IsShort(el)}

\* C23 as stated: the pass sequence depends only on the method, on whether
\* initialize_with is set and on whether the form is Short: every name
\* element that agrees with this one on those two facts yields, under the
\* same method, the pass sequence collected here, whatever its initialize is.
C23_InitializeFlagIgnored ==
    Nones >= 1 =>
        \A o \in SameSetAndShort(iter_el) :
            collect(SingleNameDisambIter_new(iter.method, o)) = Collected

\* C23 as amended: the pass sequence depends only on the method, on whether
\* initialize_with is set while initialize is Some(true), and on whether the
\* form is Short: every name element that agrees with this one on those two
\* facts yields, under the same method, the pass sequence collected here.
C23_PassesDependOnInEffect ==
    Nones >= 1 =>
        \A o \in NameEls :
            (InEffect(o) = InEffect(iter_el) /\ IsShort(o) = IsShort(iter_el)) =>
                collect(SingleNameDisambIter_new(iter.method, o)) = Collected

\* C23's case: two passes collected from an element with initialize = true,
\* when an element differing in that flag alone exists
C23_Witness ==
    /\ Nones >= 1
    /\ Collected = <<"WithFormLong", "WithInitializeFalse">>
    /\ iter_el.initialize = "true"
    /\ [iter_el EXCEPT !.initialize = "false"] \in SameSetAndShort(iter_el)

(***************************************************************************)
(* Further claims about global name disambiguation, checked under          *)
(* SpecDisamb.                                                             *)
(***************************************************************************)
\* the prefixes of a name's pass sequence whose rendered edge at most one
\* matcher accepts
Unambiguous(data) ==
    {k \in 0..Len(PassesOf(data)) :
        Cardinality(Accepting(single_name_edge(AfterPrefix(data, k)))) <= 1}
Shortest(S) == CHOOSE k \in S : \A l \in S : k <= l

\* C22: for each name that disambiguated_person_names does not reset, the
\* recorded data is the original data with the shortest prefix of its
\* iterator's pass sequence applied whose rendered edge at most one matcher
\* accepts; a name whose original edge is unambiguous is recorded unchanged.
C22_ShortestExpansion ==
    dpc = "done" =>
        \A r \in DOMAIN results \ was_reset :
            /\ Unambiguous(lookup(r)) # {}
            /\ results[r] = AfterPrefix(lookup(r), Shortest(Unambiguous(lookup(r))))
            /\ 0 \in Unambiguous(lookup(r)) => results[r] = lookup(r)

\* C22's case: a name recorded after both of its passes, the first pass
\* alone leaving it ambiguous
C22_Witness ==
    /\ dpc = "done"
    /\ \E r \in DOMAIN results \ was_reset :
          /\ Shortest(Unambiguous(lookup(r))) = 2
          /\ results[r] = AfterPrefix(lookup(r), 2)
          /\ results[r] # lookup(r)

\* the orders in which all_person_names can list n names
Perms(n) == {p \in [1..n -> 1..n] : \A i, j \in 1..n : p[i] = p[j] => i = j}
Permuted(list, p) == [i \in 1..Len(list) |-> list[p[i]]]

\* C24: the map returned by disambiguated_person_names does not depend on
\* the order in which all_person_names lists the names: for every
\* permutation of the list the function returns, name by name, the data
\* recorded here.
C24_OrderIndependent ==
    dpc = "done" =>
        \A p \in Perms(Len(dns)) :
            LET other == disambiguated_person_names(Permuted(dns, p), style)
            IN  /\ DOMAIN other = DOMAIN results
                /\ \A id \in DOMAIN results : other[id] = results[id]

\* C24's case: two names listed, the first recorded expanded and the second
\* recorded as it was, so that the two orders treat different names first
C24_Witness ==
    /\ dpc = "done"
    /\ Len(dns) = 2
    /\ DOMAIN results = {1, 2}
    /\ results[1] # lookup(1)
    /\ results[2] = lookup(2)

(***************************************************************************)
(* Further claims about group_and_collapse, checked under SpecGroup.       *)
(***************************************************************************)
\* C26: after group_and_collapse with a collapse setting other than
\* CitationNumber, no cite is marked both is_first and should_collapse.
C26_FirstXorCollapse ==
    (gpc = "done" /\ collapse # "CitationNumber") =>
        \A k \in 1..Len(cites) : ~(cites[k].is_first /\ cites[k].should_collapse)

\* the marks exclude each other where no name comes back after another name
\* came between
NoInterleaving ==
    \A i, j, k \in 1..Len(cites) :
        (cites[i].id < cites[j].id /\ cites[j].id < cites[k].id
         /\ cites[i].name = cites[k].name /\ cites[i].name # "None")
            => cites[j].name \in {cites[i].name, "None"}
FirstXorCollapseWithoutInterleaving ==
    (gpc = "done" /\ collapse # "CitationNumber" /\ NoInterleaving) =>
        \A k \in 1..Len(cites) : ~(cites[k].is_first /\ cites[k].should_collapse)

\* the input positions of the cites, in their present order
Ids(cs) == [k \in 1..Len(cs) |-> cs[k].id]
Without(s, q) == SubSeq(s, 1, q - 1) \o SubSeq(s, q + 1, Len(s))

\* one iteration of the grouping loop at ix leaves the order alone, or moves
\* the cite at ix to q, directly after the last cite before it that has its
\* name, and keeps the order of all other cites
MovedBehindItsGroup(before, after, ix) ==
    \/ Ids(after) = Ids(before)
    \/ \E q \in 2..ix :
          /\ after[q].id = before[ix + 1].id
          /\ Without(Ids(after), q) = Without(Ids(before), ix + 1)
          /\ before[q - 1].name = before[ix + 1].name
          /\ \A j \in q..ix : before[j].name # before[ix + 1].name

\* C27: group_and_collapse only permutes the cite list: the list keeps its
\* length and its cites, and an iteration moves a cite only to the position
\* directly after the last cite of the group whose first-name-block output
\* it shares, keeping the relative order of all other cites.
C27_OnlyMovesBehindGroup ==
    /\ {cites[k].id : k \in 1..Len(cites)} = 0..(Len(cites) - 1)
    /\ (gpc = "group" /\ gix < Len(cites)) =>
           MovedBehindItsGroup(cites, group_step(cites, gm, gix).cites, gix)

\* the list is a permutation of the input at every point of the function
CitesArePermuted ==
    {cites[k].id : k \in 1..Len(cites)} = 0..(Len(cites) - 1)

\* the moves are as C27 says where no name comes back after another name
\* came between
MovesBehindGroupWithoutInterleaving ==
    (gpc = "group" /\ gix < Len(cites) /\ NoInterleaving) =>
        MovedBehindItsGroup(cites, group_step(cites, gm, gix).cites, gix)

(***************************************************************************)
(* A further claim about collapse_ranges, checked under SpecRanges.        *)
(***************************************************************************)
\* C28: attempt_append, and therefore collapse_ranges, never overflows u32
\* arithmetic: for every input, also one where a 0 follows another number,
\* the call returns without an overflow panic and every `nxt.cnum - 1` it
\* computes is the difference of the numbers, within 0 .. 2^32 - 1.
C28_NoOverflow ==
    pieces.status # "pending" =>
        /\ pieces.status = "ok"
        /\ \A i \in 2..Len(nums) :
              u32_sub(build, nums[i].cnum, 1).value = nums[i].cnum - 1

\* the subtraction stays in range exactly when no number after the first is 0
OverflowOnlyAtZero ==
    pieces.status # "pending" =>
        ((\A i \in 2..Len(nums) : nums[i].cnum # 0) <=>
            (/\ pieces.status = "ok"
             /\ \A i \in 2..Len(nums) :
                   u32_sub(build, nums[i].cnum, 1).value = nums[i].cnum - 1))

(***************************************************************************)
(* A claim about the NFA-building loop of Names::ref_ir, checked under     *)
(* SpecNfa.                                                                *)
(***************************************************************************)
\* C25: for every name variable the loop `while counted_tokens >
\* max_counted_tokens` terminates, also when a run adds no edges and the
\* returned frontier is the start node.
C25_LoopTerminates == <>(npc = "done")

\* every run adds an edge: the name element has affixes, or every build the
\* loop can reach holds a token that is not empty
EveryRunAddsEdge ==
    \/ nin.affixes
    \/ \A b \in 0..Len(nin.names) :
          LET v == names_to_builds(nin.names, nin.use_first, nin.delimiter, b)
          IN  \E i \in 1..Len(v) : v[i].what \notin {"LiteralEmpty", ""}
\* the loop terminates when it is not entered or every run adds an edge
TerminatesWhenRunsAddEdges ==
    (Len(nin.names) = 0 \/ EveryRunAddsEdge) => <>(npc = "done")

====
